---- MODULE Spec2Model ----
(***************************************************************************)
(* Model of the ganymede-sdk pay-per-request protocol and of its           *)
(* transaction submission layer.                                           *)
(*                                                                         *)
(*   SubmitSpec  : GanymedeClient.executeSwap / sendTransactionWithRetry   *)
(*                 (packages/sdk/src/client.ts) against a ledger whose     *)
(*                 height advances on its own.                             *)
(*   PaySpec     : wrapFetchWithPayment and the idempotency registry       *)
(*                 (packages/sdk/src/utils/x402-fetch.ts) against the      *)
(*                 server's paymentMiddleware / verifyPayment               *)
(*                 (packages/server/src/middleware/x402.ts) and against    *)
(*                 arbitrary other responders.                             *)
(*   RegistrySpec: the same calls with clearIdempotencyKeys and            *)
(*                 clearAllIdempotencyKeys called at any moment.           *)
(*   ServerSpec  : paymentMiddleware / verifyPayment on their own, one     *)
(*                 request handled per step.                               *)
(*   AnswerSpec  : the same middleware with the verify call to the         *)
(*                 Facilitator awaited as a step of its own.               *)
(*   AbortSpec   : PaySpec with callers that abort their signal.           *)
(*   EnhancedSpec: GanymedeClient.getEnhancedSwap / fetchPremiumSwap in    *)
(*                 front of the wrapper.                                   *)
(*   ConcurrentSpec: two logical calls in flight together, with the clear  *)
(*                 functions.                                              *)
(***************************************************************************)
EXTENDS Integers, Sequences, FiniteSets, TLC

(***************************************************************************)
(* Bounds of the model.                                                    *)
(***************************************************************************)
\* The ledger height stops advancing at this height.
MaxHeight == 4
\* Number of blocks after which a fetched blockhash stops being valid
\* (lastValidBlockHeight - current height, a property of the ledger).
BlockhashValidity == 1
\* getRetryDelay is evaluated on the attempt numbers 0..MaxDelayArg.
MaxDelayArg == 8
\* Date.now() takes the values 1..MaxTime.
MaxTime == 2
\* Logical calls of the wrapped fetch started in one behaviour.
MaxCalls == 2
\* Calls of clearIdempotencyKeys / clearAllIdempotencyKeys in one behaviour.
MaxClears == 1
\* Requests delivered to a middleware on its own.
MaxRequests == 2

(***************************************************************************)
(* Program constants (packages/sdk/src/client.ts).                         *)
(***************************************************************************)
MAX_RETRY_ATTEMPTS == 3
BASE_RETRY_DELAY == 500
MAX_RETRY_DELAY == 5000

VARIABLES
    \* ---- ledger ----
    blockHeight,            \* the ledger's current block height
    \* ---- one executeSwap call ----
    swapPc,                 \* the await the call is suspended at
    lastValidBlockHeight,   \* blockhashData.lastValidBlockHeight of executeSwap
    attempt,                \* loop variable of sendTransactionWithRetry
    lastError,              \* lastError of sendTransactionWithRetry
    swapResult,             \* what executeSwap returned or threw
    confirmLastValid,       \* lastValidBlockHeight handed to connection.confirmTransaction
    \* ---- history of the call (not program state) ----
    prepared,               \* sendTransactionWithRetry has been entered
    observedHeight,         \* height the expiry check of this attempt saw (-1: none)
    sendCount,              \* sendRawTransaction calls issued
    sentThisAttempt,        \* sendRawTransaction was issued on the current attempt
    lateSend,               \* some sendRawTransaction was issued with blockHeight > deadline
    acceptedSends,          \* sendRawTransaction calls that returned a txid
    confirmCount,           \* connection.confirmTransaction calls issued
    sleeps,                 \* the backoff delays slept, in order
    \* ---- payment: client process ----
    now,                    \* Date.now()
    idempotencyKeys,        \* the module-level Map of x402-fetch.ts: cache key -> token
    enableIdempotency,      \* config.enableIdempotency !== false
    maxPayment,             \* config.maxPayment, in millionths of a USDC
    calls,                  \* the logical calls of the wrapped fetch, one per slot
    \* ---- payment: server process ----
    production,             \* process.env.NODE_ENV === 'production'
    \* ---- payment: history (not program state) ----
    started,                \* logical calls started so far
    clearCount,             \* invalidation calls so far
    invalidations,          \* per payer: invalidations that were aimed at it
    lastClear,              \* argument of the latest invalidation ("all" for clearAll)
    lastUse,                \* per cache key: the token its latest call used, and when
    accepted,               \* payments the middleware verified (next() on a priced route)
    \* ---- payment: the middleware on its own ----
    pricing,                \* the pricing table paymentMiddleware was created with
    served,                 \* requests HandleRequest has delivered to the middleware
    handled,                \* the latest of them and what the middleware did with it
    issued                  \* the pseudo transaction ids issued for them, in order, each
                            \* with the Date.now() and Math.random() it was made from

payVars == <<now, idempotencyKeys, enableIdempotency, maxPayment, calls, production,
             started, clearCount, invalidations, lastClear, lastUse, accepted>>

subVars == <<blockHeight, swapPc, prepared, lastValidBlockHeight, attempt, lastError, swapResult,
             confirmLastValid, observedHeight, sendCount, sentThisAttempt, lateSend,
             acceptedSends, confirmCount, sleeps>>

srvVars == <<pricing, served, handled, issued>>

vars == <<subVars, payVars, srvVars>>

Min(a, b) == IF a < b THEN a ELSE b

(***************************************************************************)
(* Strings.  A string whose characters the program inspects is a sequence  *)
(* of one-character strings.                                               *)
(***************************************************************************)
\* The printable ASCII characters, code 32 first ("grave" stands for code 96, which
\* no string of the model contains).
AsciiPrintable == <<
    " ", "!", "\"", "#", "$", "%", "&", "'", "(", ")", "*", "+", ",", "-", ".", "/",
    "0", "1", "2", "3", "4", "5", "6", "7", "8", "9", ":", ";", "<", "=", ">", "?",
    "@", "A", "B", "C", "D", "E", "F", "G", "H", "I", "J", "K", "L", "M", "N", "O",
    "P", "Q", "R", "S", "T", "U", "V", "W", "X", "Y", "Z", "[", "\\", "]", "^", "_",
    "grave", "a", "b", "c", "d", "e", "f", "g", "h", "i", "j", "k", "l", "m", "n", "o",
    "p", "q", "r", "s", "t", "u", "v", "w", "x", "y", "z", "{", "|", "}", "~" >>

\* The character code of a printable ASCII character.
CharCode(c) == 31 + (CHOOSE i \in 1..Len(AsciiPrintable) : AsciiPrintable[i] = c)

\* Buffer.from(str): the UTF-8 bytes of an ASCII string
Utf8Bytes(str) == [i \in 1..Len(str) |-> CharCode(str[i])]

\* The base64url alphabet of Buffer.toString('base64url').
Base64UrlAlphabet == <<
    "A", "B", "C", "D", "E", "F", "G", "H", "I", "J", "K", "L", "M", "N", "O", "P",
    "Q", "R", "S", "T", "U", "V", "W", "X", "Y", "Z", "a", "b", "c", "d", "e", "f",
    "g", "h", "i", "j", "k", "l", "m", "n", "o", "p", "q", "r", "s", "t", "u", "v",
    "w", "x", "y", "z", "0", "1", "2", "3", "4", "5", "6", "7", "8", "9", "-", "_" >>

RECURSIVE Base64UrlEncode(_)
\* Buffer.toString('base64url'): three bytes give four characters, no padding
Base64UrlEncode(bytes) ==
    LET B(i) == Base64UrlAlphabet[i + 1]
        n == Len(bytes)
    IN  IF n = 0 THEN <<>>
        ELSE IF n = 1
        THEN << B(bytes[1] \div 4), B((bytes[1] % 4) * 16) >>
        ELSE IF n = 2
        THEN << B(bytes[1] \div 4),
                B((bytes[1] % 4) * 16 + bytes[2] \div 16),
                B((bytes[2] % 16) * 4) >>
        ELSE << B(bytes[1] \div 4),
                B((bytes[1] % 4) * 16 + bytes[2] \div 16),
                B((bytes[2] % 16) * 4 + bytes[3] \div 64),
                B(bytes[3] % 64) >>
             \o Base64UrlEncode(SubSeq(bytes, 4, n))

DecimalDigits == <<"0", "1", "2", "3", "4", "5", "6", "7", "8", "9">>

RECURSIVE NumberToString(_)
\* `${n}` of a non-negative integer
NumberToString(n) ==
    IF n < 10
    THEN << DecimalDigits[n + 1] >>
    ELSE NumberToString(n \div 10) \o << DecimalDigits[(n % 10) + 1] >>

\* String.prototype.includes
Includes(str, search) ==
    \E i \in 0..(Len(str) - Len(search)) : SubSeq(str, i + 1, i + Len(search)) = search

\* NaN and the finite numbers parseInt returns.
NaN == [nan |-> TRUE, value |-> 0]
Num(v) == [nan |-> FALSE, value |-> v]

DigitValue(c) == (CHOOSE i \in 1..10 : DecimalDigits[i] = c) - 1
IsDigit(c) == \E i \in 1..10 : DecimalDigits[i] = c

RECURSIVE SkipWhiteSpace(_)
SkipWhiteSpace(str) ==
    IF Len(str) > 0 /\ str[1] \in {" ", "\t", "\n"}
    THEN SkipWhiteSpace(Tail(str))
    ELSE str

RECURSIVE DigitPrefixValue(_, _)
\* The value of the longest prefix of decimal digits of str, continuing from acc.
DigitPrefixValue(str, acc) ==
    IF Len(str) > 0 /\ IsDigit(str[1])
    THEN DigitPrefixValue(Tail(str), acc * 10 + DigitValue(str[1]))
    ELSE acc

\* parseInt(str) with no radix, for strings without a 0x prefix: leading white space
\* is skipped, a sign is read, then the longest prefix of digits; NaN without one.
parseInt(str) ==
    LET t == SkipWhiteSpace(str)
        negative == Len(t) > 0 /\ t[1] = "-"
        u == IF Len(t) > 0 /\ t[1] \in {"+", "-"} THEN Tail(t) ELSE t
    IN  IF Len(u) = 0 \/ ~IsDigit(u[1])
        THEN NaN
        ELSE Num((IF negative THEN -1 ELSE 1) * DigitPrefixValue(u, 0))

(***************************************************************************)
(* Errors.  An error is a record: code ("Error" for a plain Error that is  *)
(* not a GanymedeError), message, the attempt it was raised on (its        *)
(* identity in the model) and the wrapped cause.                           *)
(***************************************************************************)
NoError == [code |-> "none", message |-> "none", at |-> -1, cause |-> <<>>]

\* new GanymedeError(code, message, cause)
GanymedeError(code, message, at, cause) ==
    [code |-> code, message |-> message, at |-> at, cause |-> cause]

\* An Error thrown by a collaborator (wallet, ledger client).
PlainError(message, at) == [code |-> "Error", message |-> message, at |-> at, cause |-> <<>>]

\* `error instanceof GanymedeError`
IsGanymedeError(e) == e.code \notin {"Error", "none"}

ExpiredMessage == "Transaction blockhash has expired. Please rebuild the transaction."

\* Messages of the errors the ledger client and the wallet raise.
SendErrorMessage == "failed to send transaction"
ConfirmErrorMessage == "block height exceeded"
RpcErrorMessage == "failed to get block height"
BlockhashErrorMessage == "failed to get recent blockhash"
SignErrorMessage == "User rejected the request"
OnChainErrorMessage == "Transaction failed: {InstructionError}"

\* message.includes('blockhash has expired'), over the messages of the model
IsExpiredErrorNever(e) == FALSE
IsExpiredError(e) == e.message \in {ExpiredMessage}

(***************************************************************************)
(* getRetryDelay                                                           *)
(***************************************************************************)
getRetryDelayUncapped(n) == BASE_RETRY_DELAY * (2 ^ n)
getRetryDelayNext(n) == Min(BASE_RETRY_DELAY * (2 ^ (n + 1)), MAX_RETRY_DELAY)
getRetryDelay(n) ==
    LET delay == BASE_RETRY_DELAY * (2 ^ n)
    IN  Min(delay, MAX_RETRY_DELAY)

(***************************************************************************)
(* executeSwap                                                             *)
(***************************************************************************)
Wallets == [connected : BOOLEAN, publicKey : BOOLEAN, signTransaction : BOOLEAN]

SubIdle ==
    /\ blockHeight = 0
    /\ swapPc = "idle"
    /\ lastValidBlockHeight = 0
    /\ attempt = 0
    /\ lastError = NoError
    /\ swapResult = [kind |-> "none", error |-> NoError]
    /\ confirmLastValid = 0
    /\ prepared = FALSE
    /\ observedHeight = -1
    /\ sendCount = 0
    /\ sentThisAttempt = FALSE
    /\ lateSend = FALSE
    /\ acceptedSends = 0
    /\ confirmCount = 0
    /\ sleeps = <<>>

\* executeSwap ends by throwing e.
SwapThrows(e) ==
    /\ swapPc' = "done"
    /\ swapResult' = [kind |-> "error", error |-> e]

\* The catch of executeSwap: a GanymedeError is rethrown, anything else is wrapped.
ExecuteSwapCatch(e) ==
    IF IsGanymedeError(e)
    THEN e
    ELSE GanymedeError("SWAP_FAILED", "Failed to execute swap", e.at, <<e>>)

\* The ledger's height advances independently of the client.
AdvanceHeight ==
    /\ blockHeight < MaxHeight
    /\ blockHeight' = blockHeight + 1
    /\ UNCHANGED <<swapPc, prepared, lastValidBlockHeight, attempt, lastError, swapResult,
                   confirmLastValid, observedHeight, sendCount, sentThisAttempt, lateSend,
                   acceptedSends, confirmCount, sleeps>>
    /\ UNCHANGED <<payVars, srvVars>>

\* executeSwap up to its first await: validateWallet and the signTransaction test.
ExecuteSwap ==
    /\ swapPc = "idle"
    /\ \E w \in Wallets :
        IF ~w.connected \/ ~w.publicKey
        THEN SwapThrows(GanymedeError("WALLET_NOT_CONNECTED", "Wallet is not connected", -1, <<>>))
        ELSE IF ~w.signTransaction
        THEN SwapThrows(GanymedeError("WALLET_SIGNING_FAILED",
                                      "Wallet does not support transaction signing", -1, <<>>))
        ELSE /\ swapPc' = "signTransaction"
             /\ UNCHANGED swapResult
    /\ UNCHANGED <<blockHeight, prepared, lastValidBlockHeight, attempt, lastError,
                   confirmLastValid, observedHeight, sendCount, sentThisAttempt, lateSend,
                   acceptedSends, confirmCount, sleeps>>
    /\ UNCHANGED <<payVars, srvVars>>

\* await wallet.signTransaction(result.transaction)
SignTransaction ==
    /\ swapPc = "signTransaction"
    /\ \/ /\ swapPc' = "getLatestBlockhash"
          /\ UNCHANGED swapResult
       \/ SwapThrows(ExecuteSwapCatch(PlainError(SignErrorMessage, -1)))
    /\ UNCHANGED <<blockHeight, prepared, lastValidBlockHeight, attempt, lastError,
                   confirmLastValid, observedHeight, sendCount, sentThisAttempt, lateSend,
                   acceptedSends, confirmCount, sleeps>>
    /\ UNCHANGED <<payVars, srvVars>>

\* await getLatestBlockhash(connection): the deadline of the submission is captured,
\* and sendTransactionWithRetry is entered with attempt = 0.
GetLatestBlockhash ==
    /\ swapPc = "getLatestBlockhash"
    /\ \/ /\ lastValidBlockHeight' = blockHeight + BlockhashValidity
          /\ swapPc' = "hasTransactionExpired"
          /\ attempt' = 0
          /\ prepared' = TRUE
          /\ UNCHANGED swapResult
       \/ /\ SwapThrows(ExecuteSwapCatch(PlainError(BlockhashErrorMessage, -1)))
          /\ UNCHANGED <<lastValidBlockHeight, attempt, prepared>>
    /\ UNCHANGED <<blockHeight, lastError,
                   confirmLastValid, observedHeight, sendCount, sentThisAttempt, lateSend,
                   acceptedSends, confirmCount, sleeps>>
    /\ UNCHANGED <<payVars, srvVars>>

\* hasTransactionExpired: currentBlockHeight > lastValidBlockHeight
hasTransactionExpiredLenient(currentBlockHeight, lastValid) == currentBlockHeight > lastValid + 1
hasTransactionExpired(currentBlockHeight, lastValid) == currentBlockHeight > lastValid

\* `attempt >= MAX_RETRY_ATTEMPTS` of the catch block
RetriesExhaustedLate(a) == a >= MAX_RETRY_ATTEMPTS + 1
RetriesExhausted(a) == a >= MAX_RETRY_ATTEMPTS

\* The catch block of sendTransactionWithRetry for an error e raised on this attempt:
\* an expiry error is rethrown, the last attempt's error is wrapped, otherwise the loop
\* sleeps.  Both throws leave executeSwap through its own catch.
RetryCatch(e) ==
    /\ lastError' = e
    /\ IF IsExpiredError(e)
       THEN SwapThrows(ExecuteSwapCatch(e))
       ELSE IF RetriesExhausted(attempt)
       THEN SwapThrows(ExecuteSwapCatch(
                GanymedeError("SWAP_FAILED", "Transaction failed after 3 retry attempts",
                              attempt, <<e>>)))
       ELSE /\ swapPc' = "sleep"
            /\ UNCHANGED swapResult

\* await hasTransactionExpired(connection, blockhashData.lastValidBlockHeight)
HasTransactionExpired ==
    /\ swapPc = "hasTransactionExpired"
    /\ \/ /\ observedHeight' = blockHeight
          /\ IF hasTransactionExpired(blockHeight, lastValidBlockHeight)
             THEN RetryCatch(GanymedeError("SWAP_FAILED", ExpiredMessage, attempt, <<>>))
             ELSE /\ swapPc' = "sendRawTransaction"
                  /\ UNCHANGED <<lastError, swapResult>>
       \/ /\ RetryCatch(PlainError(RpcErrorMessage, attempt))
          /\ UNCHANGED observedHeight
    /\ UNCHANGED <<blockHeight, prepared, lastValidBlockHeight, attempt,
                   confirmLastValid, sendCount, sentThisAttempt, lateSend,
                   acceptedSends, confirmCount, sleeps>>
    /\ UNCHANGED <<payVars, srvVars>>

\* await connection.sendRawTransaction(serializedTransaction, {...})
SendRawTransaction ==
    /\ swapPc = "sendRawTransaction"
    /\ sendCount' = sendCount + 1
    /\ sentThisAttempt' = TRUE
    /\ lateSend' = (lateSend \/ blockHeight > lastValidBlockHeight)
    /\ \/ /\ swapPc' = "confirmGetLatestBlockhash"
          /\ acceptedSends' = acceptedSends + 1
          /\ UNCHANGED <<lastError, swapResult>>
       \/ /\ RetryCatch(PlainError(SendErrorMessage, attempt))
          /\ UNCHANGED acceptedSends
    /\ UNCHANGED <<blockHeight, prepared, lastValidBlockHeight, attempt,
                   confirmLastValid, observedHeight, confirmCount, sleeps>>
    /\ UNCHANGED <<payVars, srvVars>>

\* confirmTransaction: await getLatestBlockhash(connection)
ConfirmGetLatestBlockhash ==
    /\ swapPc = "confirmGetLatestBlockhash"
    /\ \/ /\ confirmLastValid' = blockHeight + BlockhashValidity
          /\ swapPc' = "confirmTransaction"
          /\ UNCHANGED <<lastError, swapResult>>
       \/ /\ RetryCatch(PlainError(BlockhashErrorMessage, attempt))
          /\ UNCHANGED confirmLastValid
    /\ UNCHANGED <<blockHeight, prepared, lastValidBlockHeight, attempt,
                   observedHeight, sendCount, sentThisAttempt, lateSend,
                   acceptedSends, confirmCount, sleeps>>
    /\ UNCHANGED <<payVars, srvVars>>

\* confirmTransaction: await connection.confirmTransaction(...), then the err test
ConfirmTransaction ==
    /\ swapPc = "confirmTransaction"
    /\ confirmCount' = confirmCount + 1
    /\ \/ /\ swapPc' = "done"
          /\ swapResult' = [kind |-> "txid", error |-> NoError]
          /\ UNCHANGED lastError
       \/ RetryCatch(GanymedeError("SWAP_FAILED", OnChainErrorMessage, attempt, <<>>))
       \/ RetryCatch(PlainError(ConfirmErrorMessage, attempt))
    /\ UNCHANGED <<blockHeight, prepared, lastValidBlockHeight, attempt,
                   confirmLastValid, observedHeight, sendCount, sentThisAttempt, lateSend,
                   acceptedSends, sleeps>>
    /\ UNCHANGED <<payVars, srvVars>>

\* await new Promise(resolve => setTimeout(resolve, getRetryDelay(attempt))), then
\* attempt++ and the loop test; `throw lastError` when the loop is left.
Sleep ==
    /\ swapPc = "sleep"
    /\ sleeps' = Append(sleeps, getRetryDelay(attempt))
    /\ attempt' = attempt + 1
    /\ sentThisAttempt' = FALSE
    /\ observedHeight' = -1
    /\ IF attempt + 1 <= MAX_RETRY_ATTEMPTS
       THEN /\ swapPc' = "hasTransactionExpired"
            /\ UNCHANGED swapResult
       ELSE SwapThrows(ExecuteSwapCatch(lastError))
    /\ UNCHANGED <<blockHeight, prepared, lastValidBlockHeight, lastError,
                   confirmLastValid, sendCount, lateSend, acceptedSends, confirmCount>>
    /\ UNCHANGED <<payVars, srvVars>>

\* The steps of the executeSwap call (every await of it returns or fails).
SwapStep ==
    \/ ExecuteSwap
    \/ SignTransaction
    \/ GetLatestBlockhash
    \/ HasTransactionExpired
    \/ SendRawTransaction
    \/ ConfirmGetLatestBlockhash
    \/ ConfirmTransaction
    \/ Sleep

SubNext ==
    \/ AdvanceHeight
    \/ SwapStep

(***************************************************************************)
(* The pay-per-request protocol: data.                                     *)
(***************************************************************************)
\* Wallet addresses (base58 strings) and the fallback of wrapFetchWithPayment.
AddressA == <<"A", "d", "r", "A", "7">>
AddressB == <<"B", "o", "b", "B", "3">>
UnknownAddress == <<"u", "n", "k", "n", "o", "w", "n">>

\* A wallet: publicKey is an address or <<>> (null); signMessage may be missing.
ClientWallets ==
    { [publicKey |-> AddressA, signMessage |-> TRUE],
      [publicKey |-> AddressB, signMessage |-> FALSE],
      [publicKey |-> <<>>, signMessage |-> TRUE] }

\* The requests the callers make: the priced route and a free route of the server.
\* The url stands for `${apiEndpoint}/v1/swap/enhanced` and `${apiEndpoint}/info`.
PremiumPath == <<"/", "e">>
InfoPath == <<"/", "i">>
POST == <<"P", "O", "S", "T">>
GET == <<"G", "E", "T">>
Targets == { [url |-> PremiumPath, method |-> POST], [url |-> InfoPath, method |-> GET] }

Devnet == "solana:EtWTRABZaYq6iMfeYKouRu166VU2xqa1"
Mainnet == "solana:5eykt4UsFv8P8NJdTREpY1vzqKqZKvdp"

\* USDC token addresses by network
USDC_ADDRESSES ==
    (Mainnet :> "EPjFWdd5AufqSSqeM2qN1xzybapC8G4wEGGkZwyTDt1v")
    @@ (Devnet :> "4zMMC9srt5Ri5X14GAgXhaHii3GnPAEERYPJgZJDncDU")

\* A header that is absent (headers.get gives null, req.headers[...] undefined).
NoHeader == [kind |-> "absent"]
\* A header value that is not base64 of a JSON text.
Garbage == [kind |-> "garbage"]
\* btoa(JSON.stringify(value))
Base64Json(value) == [kind |-> "base64json", value |-> value]
\* btoa('null'): base64 of the JSON text null
Base64Null == [kind |-> "base64null"]
\* JSON.parse(atob(header)) succeeds with an object
Decodable(header) == header.kind = "base64json"

\* config.maxPayment of the callers, in millionths: 0.01 USDC (DEFAULT_MAX_PAYMENT).
MaxPayments == {10000}

\* Transaction ids are strings: undefined (no id), an id a Facilitator reports, and
\* the values of Math.random().toString(36).slice(2) of the server.
NoTx == <<>>
FacilitatorTx == <<"5", "V", "q", "j">>
Randoms == { <<"k", "3", "f", "9">>, <<"x", "8", "1", "q">> }
\* A pseudo transaction id that leaves the random part out.
DevTxTimeOnly(time, random) == <<"d", "e", "v", "_">> \o NumberToString(time)
\* `dev_${Date.now()}_${Math.random().toString(36).slice(2)}`
DevTx(time, random) ==
    <<"d", "e", "v", "_">> \o NumberToString(time) \o <<"_">> \o random
\* The id is in the name space of the pseudo transaction ids.
IsPseudo(txHash) == Len(txHash) >= 4 /\ SubSeq(txHash, 1, 4) = <<"d", "e", "v", "_">>

\* What the Facilitator does with one verify call: it cannot be reached, it answers
\* with an error status, or it answers 200 with a body that is not JSON or with a
\* verdict (message is "undefined" when the verdict has none).
FacilitatorBehaviours ==
    { [reach |-> "unreachable", valid |-> FALSE, txHash |-> NoTx, message |-> "undefined"],
      [reach |-> "errorStatus", valid |-> FALSE, txHash |-> NoTx, message |-> "undefined"],
      [reach |-> "malformedBody", valid |-> FALSE, txHash |-> NoTx, message |-> "undefined"],
      [reach |-> "ok", valid |-> FALSE, txHash |-> NoTx, message |-> "Insufficient amount"],
      [reach |-> "ok", valid |-> FALSE, txHash |-> NoTx, message |-> "undefined"],
      [reach |-> "ok", valid |-> TRUE, txHash |-> NoTx, message |-> "undefined"],
      [reach |-> "ok", valid |-> TRUE, txHash |-> FacilitatorTx, message |-> "undefined"] }

\* Status codes of the route handlers behind the middleware: success, and 500 for
\* their failures (400, 429 and 500 are all non-success, non-402 to the wrapper).
HandlerStatuses == {200, 500}

(***************************************************************************)
(* Idempotency registry (x402-fetch.ts).                                   *)
(***************************************************************************)
\* `idem_${Buffer.from(`${walletAddress}:${url}:${method}:${timestamp}`)
\*            .toString('base64url')}` with timestamp = Date.now()
generateIdempotencyKey(url, method, walletAddress, timestamp) ==
    LET uniqueKey == walletAddress \o <<":">> \o url \o <<":">> \o method \o <<":">>
                     \o NumberToString(timestamp)
    IN  <<"i", "d", "e", "m", "_">> \o Base64UrlEncode(Utf8Bytes(uniqueKey))

\* `${walletAddress}:${url}:${method}`
CacheKey(url, method, walletAddress) == walletAddress \o <<":">> \o url \o <<":">> \o method

\* getIdempotencyKey without the lookup of the Map: a new key on every call.
getIdempotencyKeyUncached(url, method, walletAddress) ==
    LET cacheKey == CacheKey(url, method, walletAddress)
        newKey == generateIdempotencyKey(url, method, walletAddress, now)
    IN  [key |-> newKey, map |-> (cacheKey :> newKey) @@ idempotencyKeys]

\* getIdempotencyKey: the key to use and the Map afterwards.
getIdempotencyKey(url, method, walletAddress) ==
    LET cacheKey == CacheKey(url, method, walletAddress)
        newKey == generateIdempotencyKey(url, method, walletAddress, now)
    IN  IF cacheKey \in DOMAIN idempotencyKeys /\ Len(idempotencyKeys[cacheKey]) > 0
        THEN [key |-> idempotencyKeys[cacheKey], map |-> idempotencyKeys]
        ELSE [key |-> newKey, map |-> (cacheKey :> newKey) @@ idempotencyKeys]

\* The Map after clearIdempotencyKeys(walletAddress): the entries whose VALUE (the
\* encoded token) contains walletAddress are deleted.
clearIdempotencyKeys(walletAddress) ==
    LET kept == { k \in DOMAIN idempotencyKeys :
                    ~Includes(idempotencyKeys[k], walletAddress) }
    IN  [k \in kept |-> idempotencyKeys[k]]

\* The Map after clearAllIdempotencyKeys()
clearAllIdempotencyKeys == [k \in {} |-> <<>>]

\* The cache key k belongs to payer a.
KeyOfPayer(k, a) == Len(k) > Len(a) /\ SubSeq(k, 1, Len(a) + 1) = a \o <<":">>

(***************************************************************************)
(* IEEE-754 double arithmetic (the Number type of the server's runtime).   *)
(* A positive double is significand * 2^exponent with a significand of     *)
(* Precision bits, the first of them 1.  Long numbers are sequences of     *)
(* limbs (digits in base Limb, most significant first) or of bits.        *)
(***************************************************************************)
RECURSIVE Pow10(_)
Pow10(n) == IF n = 0 THEN 1 ELSE 10 * Pow10(n - 1)

\* Bits of the significand of a double.
Precision == 53

\* Base of the limbs and its width in bits: Limb = 2^LimbBits.
LimbBits == 10

Limb == 2 ^ LimbBits

\* Limbs added below the decimal numerator before it is divided, so that the
\* quotient has more than Precision significant bits.
ScaleLimbs == 8

\* The limbs of a natural number (<<>> for 0).
RECURSIVE LimbsOf(_)
LimbsOf(n) == IF n = 0 THEN <<>> ELSE Append(LimbsOf(n \div Limb), n % Limb)

Zeros(n) == [i \in 1..n |-> 0]

\* limbs * c + carry, for c < 2^20.
RECURSIVE LimbsTimes(_, _, _)
LimbsTimes(limbs, c, carry) ==
    IF Len(limbs) = 0
    THEN LimbsOf(carry)
    ELSE LET t == limbs[Len(limbs)] * c + carry
         IN  Append(LimbsTimes(SubSeq(limbs, 1, Len(limbs) - 1), c, t \div Limb),
                    t % Limb)

\* Long division of limbs[i..] by c < 2^20 with the running remainder rem.
RECURSIVE LimbsDivide(_, _, _, _)
LimbsDivide(limbs, c, i, rem) ==
    IF i > Len(limbs)
    THEN [quotient |-> <<>>, remainder |-> rem]
    ELSE LET r == rem * Limb + limbs[i]
             rest == LimbsDivide(limbs, c, i + 1, r % c)
         IN  [quotient |-> <<r \div c>> \o rest.quotient, remainder |-> rest.remainder]

\* The bits of a sequence of limbs, without leading zeros; at least one limb is
\* not zero.
LimbsToBits(limbs) ==
    LET bits == [i \in 1..(LimbBits * Len(limbs)) |->
                    (limbs[((i - 1) \div LimbBits) + 1]
                        \div (2 ^ (LimbBits - 1 - ((i - 1) % LimbBits)))) % 2]
        first == CHOOSE i \in 1..Len(bits) :
                     bits[i] = 1 /\ \A j \in 1..(i - 1) : bits[j] = 0
    IN  SubSeq(bits, first, Len(bits))

\* The value of a short sequence of bits.
RECURSIVE BitsValue(_, _)
BitsValue(bits, acc) ==
    IF Len(bits) = 0 THEN acc ELSE BitsValue(Tail(bits), 2 * acc + bits[1])

\* The limbs of a sequence of bits.
BitsToLimbs(bits) ==
    LET count == (Len(bits) + LimbBits - 1) \div LimbBits
        padded == Zeros(LimbBits * count - Len(bits)) \o bits
    IN  [k \in 1..count |->
            BitsValue(SubSeq(padded, LimbBits * (k - 1) + 1, LimbBits * k), 0)]

\* bits + 1.
BitsSucc(bits) ==
    IF \A i \in 1..Len(bits) : bits[i] = 1
    THEN <<1>> \o Zeros(Len(bits))
    ELSE LET last == CHOOSE i \in 1..Len(bits) :
                         bits[i] = 0 /\ \A j \in (i + 1)..Len(bits) : bits[j] = 1
         IN  [i \in 1..Len(bits) |->
                 IF i < last THEN bits[i] ELSE IF i = last THEN 1 ELSE 0]

\* Round (bits + a non-zero fraction if sticky) * 2^exponent to the nearest double,
\* ties to even; bits has more than Precision bits and starts with 1.
RoundToDouble(bits, sticky, exponent) ==
    LET kept == SubSeq(bits, 1, Precision)
        dropped == Len(bits) - Precision
        guard == bits[Precision + 1]
        below == sticky \/ \E i \in (Precision + 2)..Len(bits) : bits[i] = 1
        up == guard = 1 /\ (below \/ kept[Precision] = 1)
        rounded == IF up THEN BitsSucc(kept) ELSE kept
    IN  IF Len(rounded) > Precision
        THEN [significand |-> SubSeq(rounded, 1, Precision),
              exponent |-> exponent + dropped + 1]
        ELSE [significand |-> rounded, exponent |-> exponent + dropped]

\* The double nearest to numerator / 10^places (the value of a decimal literal with
\* that many digits after the point), 0 < numerator, places <= 6.
DecimalToDouble(numerator, places) ==
    LET d == LimbsDivide(LimbsOf(numerator) \o Zeros(ScaleLimbs), Pow10(places), 1, 0)
    IN  RoundToDouble(LimbsToBits(d.quotient), d.remainder # 0,
                      0 - LimbBits * ScaleLimbs)

\* x * c as a double, for a double x > 0 and an integer c in 1..10^6 (both exact).
DoubleTimes(x, c) ==
    RoundToDouble(LimbsToBits(LimbsTimes(BitsToLimbs(x.significand), c, 0)) \o <<0>>,
                  FALSE, x.exponent - 1)

\* Math.floor(x) for a double 0 < x < 2^31, as an integer.
DoubleFloor(x) ==
    IF x.exponent >= 0
    THEN BitsValue(x.significand \o Zeros(x.exponent), 0)
    ELSE IF 0 - x.exponent >= Precision
    THEN 0
    ELSE BitsValue(SubSeq(x.significand, 1, Precision + x.exponent), 0)

(***************************************************************************)
(* Server: paymentMiddleware and verifyPayment (middleware/x402.ts).       *)
(***************************************************************************)
\* priceString.replace('$', ''): the first "$" is removed.
RECURSIVE RemoveFirstDollar(_)
RemoveFirstDollar(str) ==
    IF Len(str) = 0 THEN str
    ELSE IF str[1] = "$" THEN Tail(str)
    ELSE <<str[1]>> \o RemoveFirstDollar(Tail(str))

\* Number of decimal digits str begins with.
RECURSIVE DigitRun(_)
DigitRun(str) ==
    IF Len(str) > 0 /\ IsDigit(str[1]) THEN 1 + DigitRun(Tail(str)) ELSE 0

\* parseFloat(str) for literals without sign and exponent: white space is skipped,
\* then the longest prefix digits[.digits] is read as numerator / 10^places; NaN when
\* that prefix has no digit.
parseFloat(str) ==
    LET t == SkipWhiteSpace(str)
        w == DigitRun(t)
        dotted == Len(t) > w /\ t[w + 1] = "."
        f == IF dotted THEN DigitRun(SubSeq(t, w + 2, Len(t))) ELSE 0
        digits == SubSeq(t, 1, w) \o SubSeq(t, w + 2, w + 1 + f)
    IN  IF w + f = 0
        THEN [nan |-> TRUE, numerator |-> 0, places |-> 0]
        ELSE [nan |-> FALSE, numerator |-> DigitPrefixValue(digits, 0), places |-> f]

\* parsePrice(priceString, decimals):
\*   Math.floor(parseFloat(priceString.replace('$', '')) * Math.pow(10, decimals))
\*       .toString()
\* in double arithmetic.
parsePrice(priceString, decimals) ==
    LET numericValue == parseFloat(RemoveFirstDollar(priceString))
    IN  IF numericValue.nan
        THEN <<"N", "a", "N">>
        ELSE IF numericValue.numerator = 0
        THEN <<"0">>
        ELSE NumberToString(DoubleFloor(DoubleTimes(
                 DecimalToDouble(numericValue.numerator, numericValue.places),
                 Pow10(decimals))))

\* premiumPricing of the server (index.ts); the network follows NODE_ENV.
Pricing ==
    (POST \o <<" ">> \o PremiumPath) :>
        [ price |-> <<"$", "0", ".", "0", "0", "5">>,
          network |-> IF production THEN Mainnet ELSE Devnet,
          description |-> "Enhanced swap with MEV protection, priority fees, and analytics",
          mimeType |-> "application/json" ]

PAYMENT_WALLET == "YOUR_WALLET_ADDRESS_HERE"

\* The prices of the pricing tables a middleware is created with.
ServerPrices == { <<"$", "0", ".", "0", "0", "5">>, <<"$", "1", ".", "0", "0", "1">> }

\* A network name that USDC_ADDRESSES does not have.
Testnet == "solana:testnet"

\* The pricing tables a middleware is created with: one priced route.
PricingTables ==
    { (POST \o <<" ">> \o PremiumPath) :>
          [ price |-> price, network |-> network,
            description |-> "Enhanced swap with MEV protection, priority fees, and analytics",
            mimeType |-> "application/json" ] :
      price \in ServerPrices, network \in {Devnet, Mainnet, Testnet} }

\* parsePrice(price, 6) of the prices of the pricing tables.
AtomicUnits == [price \in ServerPrices |-> parsePrice(price, 6)]

\* A value that is undefined.
Undefined == [kind |-> "undefined"]

\* The PaymentRequirements the middleware builds for a priced request.
BuildRequirements(config, req) ==
    [ x402Version |-> 1,
      scheme |-> "exact",
      network |-> config.network,
      maxAmountRequired |-> AtomicUnits[config.price],
      amount |-> AtomicUnits[config.price],
      resource |-> req.url,
      description |-> config.description,
      mimeType |-> config.mimeType,
      payTo |-> PAYMENT_WALLET,
      maxTimeoutSeconds |-> 60,
      asset |-> [ address |-> USDC_ADDRESSES[config.network], decimals |-> 6,
                  symbol |-> "USDC" ] ]

\* An outcome of the try block of verifyPayment: the value it returns, or the error it
\* throws (threw; error is then error.message); fetchCalls counts the verify calls to
\* the Facilitator it issued.
Verification(valid, txHash, error, threw, fetchCalls) ==
    [ valid |-> valid, txHash |-> txHash, error |-> error, threw |-> threw,
      fetchCalls |-> fetchCalls ]

\* The network gate of verifyPayment: payload.network === requirements.network
NetworkMatchesAny(payload, requirements) == TRUE
NetworkMatches(payload, requirements) == payload.network = requirements.network

\* The try block of verifyPayment, where facilitator is what the Facilitator does with
\* the verify call and random is Math.random().
verifyPaymentTry(paymentSignature, requirements, facilitator, random) ==
    IF paymentSignature.kind = "garbage"
    THEN Verification(FALSE, NoTx, "Unexpected token", TRUE, 0)
    ELSE IF paymentSignature.kind = "base64null"
    THEN Verification(FALSE, NoTx, "Cannot read properties of null", TRUE, 0)
    ELSE LET payload == paymentSignature.value
         IN  IF payload.x402Version # 1
             THEN Verification(FALSE, NoTx, "Invalid x402 version", FALSE, 0)
             ELSE IF ~NetworkMatches(payload, requirements)
             THEN Verification(FALSE, NoTx, "Network mismatch", FALSE, 0)
             ELSE IF facilitator.reach = "ok"
             THEN Verification(facilitator.valid, facilitator.txHash,
                               facilitator.message, FALSE, 1)
             ELSE IF facilitator.reach = "malformedBody"
             THEN Verification(FALSE, NoTx, "Unexpected end of JSON input", TRUE, 1)
             ELSE IF ~production
             THEN Verification(TRUE, DevTx(now, random), "undefined", FALSE, 1)
             ELSE Verification(FALSE, NoTx, "Facilitator unavailable", FALSE, 1)

\* verifyPayment(paymentSignature, requirements, facilitatorUrl): the try block and the
\* catch clause, which returns valid:false with the message of the error.
verifyPayment(paymentSignature, requirements, facilitator, random) ==
    LET tried == verifyPaymentTry(paymentSignature, requirements, facilitator, random)
    IN  IF tried.threw
        THEN Verification(FALSE, NoTx, tried.error, FALSE, tried.fetchCalls)
        ELSE tried

\* Response with the requirement under the Payment-Required header only.
ResponseSingleAlias(status, challenge, settlement, body) ==
    [ status |-> status, paymentRequired |-> challenge, xPaymentRequired |-> NoHeader,
      xPaymentResponse |-> settlement, xPaymentTxHash |-> settlement, body |-> body,
      message |-> "undefined", price |-> <<>>, network |-> "undefined" ]

\* A response: status, the two challenge headers, the two settlement headers and the
\* members of the JSON body (body is its error member, or tells who wrote the body).
Response(status, challenge, settlement, body) ==
    [ status |-> status, paymentRequired |-> challenge, xPaymentRequired |-> challenge,
      xPaymentResponse |-> settlement, xPaymentTxHash |-> settlement, body |-> body,
      message |-> "undefined", price |-> <<>>, network |-> "undefined" ]

\* What paymentMiddleware and the handler behind it did with one request: the response,
\* whether a payment was verified for it, the calls made and req.x402Payment.
Outcome(response, requirements, verification, verifierCalls, handlerCalls, x402Payment) ==
    [ response |-> response,
      verified |-> verifierCalls = 1 /\ verification.valid,
      txHash |-> IF verifierCalls = 1 THEN verification.txHash ELSE NoTx,
      requirements |-> requirements,
      verification |-> verification,
      verifierCalls |-> verifierCalls,
      handlerCalls |-> handlerCalls,
      x402Payment |-> x402Payment ]

\* isPaid(req) of the request context the handler sees.
isPaid(x402Payment) == x402Payment # Undefined

\* A transaction id that is undefined is falsy.
Truthy(txHash) == txHash # NoTx

\* The middleware refuses the request: !verification.valid
RejectedNever(verification) == FALSE
Rejected(verification) == ~verification.valid

\* The message of the 'Payment Invalid' body: verification.error || 'Payment
\* verification failed'.
InvalidMessage(verification) ==
    IF verification.error = "undefined"
    THEN "Payment verification failed"
    ELSE verification.error

\* The authorization the middleware reads from the request:
\* req.headers['payment-signature'] || req.headers['x-payment']
Authorization(req) ==
    IF req.paymentSignature # NoHeader THEN req.paymentSignature ELSE req.xPayment

\* paymentMiddleware for one request, followed by the route handler when next() is
\* called.
paymentMiddleware(req, facilitator, random, handlerStatus) ==
    LET routeKey == req.method \o <<" ">> \o req.url
        unverified == Verification(FALSE, NoTx, "undefined", FALSE, 0)
    IN  IF routeKey \notin DOMAIN pricing
        THEN Outcome(Response(handlerStatus, NoHeader, NoTx, "handler"),
                     Undefined, unverified, 0, 1, Undefined)
        ELSE
        LET config == pricing[routeKey]
        IN  IF config.network \notin DOMAIN USDC_ADDRESSES
            THEN Outcome(Response(500, NoHeader, NoTx, "Server configuration error"),
                         Undefined, unverified, 0, 0, Undefined)
            ELSE
            LET requirements == BuildRequirements(config, req)
                paymentSignature == Authorization(req)
            IN  IF paymentSignature = NoHeader
                THEN Outcome([Response(402, Base64Json(requirements), NoTx,
                                       "Payment Required")
                                 EXCEPT !.message = config.description,
                                        !.price = config.price,
                                        !.network = config.network],
                             requirements, unverified, 0, 0, Undefined)
                ELSE
                LET verification == verifyPayment(paymentSignature, requirements,
                                                  facilitator, random)
                    x402Payment == [ txHash |-> verification.txHash,
                                     amount |-> requirements.amount,
                                     payer |-> "verified" ]
                IN  IF Rejected(verification)
                    THEN Outcome([Response(402, NoHeader, NoTx, "Payment Invalid")
                                     EXCEPT !.message = InvalidMessage(verification)],
                                 requirements, verification, 1, 0, Undefined)
                    ELSE Outcome(Response(handlerStatus, NoHeader,
                                          IF Truthy(verification.txHash)
                                          THEN verification.txHash ELSE NoTx,
                                          "handler"),
                                 requirements, verification, 1, 1, x402Payment)

(***************************************************************************)
(* Client: wrapFetchWithPayment (x402-fetch.ts).                           *)
(***************************************************************************)
\* The slots of the logical calls in flight: one call at a time.
Slots == {1}

NoRequirements == [x402Version |-> 0]
NoPayload == [x402Version |-> 0]
NoMessage == [x402Version |-> 0]
NoResponse == Response(0, NoHeader, NoTx, "none")
NoToken == <<>>

\* SwapParams of getEnhancedSwap: the three premium features.
SwapParams ==
    [mevProtection : BOOLEAN, optimizePriorityFee : BOOLEAN, includeAnalytics : BOOLEAN]

\* The wrapped fetch was called by some other caller than getEnhancedSwap.
NoSwap ==
    [ tier |-> "none", enablePremium |-> FALSE, connected |-> FALSE,
      params |-> [mevProtection |-> FALSE, optimizePriorityFee |-> FALSE,
                  includeAnalytics |-> FALSE] ]

\* A slot in which no logical call has run yet.
IdleCall ==
    [ pc |-> "idle",
      wallet |-> [publicKey |-> <<>>, signMessage |-> FALSE],
      url |-> <<>>, method |-> <<>>,
      startedAt |-> 0,
      idempotencyKey |-> NoToken,
      requirements |-> NoRequirements,
      message |-> NoMessage,
      paymentPayload |-> NoPayload,
      result |-> [kind |-> "pending", response |-> NoResponse, code |-> "none"],
      \* history of the call
      firstResponse |-> NoResponse,
      paidResponse |-> NoResponse, bodyRead |-> "no",
      fetchCount |-> 0, challengeCount |-> 0, signCount |-> 0, paidCount |-> 0,
      prevToken |-> NoToken, clearedSincePrev |-> FALSE, invalidatedSincePrev |-> FALSE,
      \* the claim the call before this one had signed for the same idempotency key
      prevMessage |-> NoMessage,
      epoch |-> 0,
      \* init.signal of the caller: whether it is aborted, and (history) where the call
      \* was when it was aborted
      aborted |-> FALSE,
      abortedAt |-> [pc |-> "none", fetchCount |-> 0, signCount |-> 0],
      \* the getEnhancedSwap call the logical call belongs to, if any
      swap |-> NoSwap ]

\* signableWallet.publicKey?.toBase58() || 'unknown'
WalletAddress(wallet) == IF wallet.publicKey = <<>> THEN UnknownAddress ELSE wallet.publicKey

\* A call that has ended: its local variables are gone; its result and its history
\* (the responses, the requirements of the challenge, the counters) remain.
Ended(call, result) ==
    [IdleCall EXCEPT
        !.pc = "done",
        !.result = result,
        !.firstResponse = call.firstResponse,
        !.paidResponse = call.paidResponse,
        !.bodyRead = call.bodyRead,
        !.requirements = call.requirements,
        !.message = call.message,
        !.fetchCount = call.fetchCount,
        !.challengeCount = call.challengeCount,
        !.signCount = call.signCount,
        !.paidCount = call.paidCount,
        !.aborted = call.aborted,
        !.abortedAt = call.abortedAt,
        !.swap = call.swap]

\* The logical call ends throwing GanymedeError(code).
Throw(call, code) ==
    Ended(call, [kind |-> "error", response |-> NoResponse, code |-> code])

\* response.ok
Ok(response) == response.status >= 200 /\ response.status <= 299

\* fetchPremiumSwap once this.paidFetch has returned response: a response that is not
\* ok is a SWAP_FAILED; a body that is no EnhancedSwapResponse makes json() or
\* VersionedTransaction.deserialize throw, which the catch wraps.
fetchPremiumSwap(response) ==
    IF ~Ok(response)
    THEN [kind |-> "error", response |-> NoResponse, code |-> "SWAP_FAILED"]
    ELSE IF response.body = "other"
    THEN [kind |-> "error", response |-> NoResponse, code |-> "NETWORK_ERROR"]
    ELSE [kind |-> "swapResult", response |-> response, code |-> "none"]

\* The logical call ends returning response (to fetchPremiumSwap, when that called).
Return(call, response) ==
    Ended(call, IF call.swap.tier = "premium"
                THEN fetchPremiumSwap(response)
                ELSE [kind |-> "response", response |-> response, code |-> "none"])

\* The requirements other responders announce: amounts that are and are not decimal
\* strings, for assets of 6 and of 2 decimals (amount, asset.decimals).
OtherPrices ==
    { [amount |-> <<"1", "0", "0", "0", "0">>, decimals |-> 6],
      [amount |-> <<"1", "0", "0", "0", "1">>, decimals |-> 6],
      [amount |-> <<"5", "0", "0", "0">>, decimals |-> 2],
      [amount |-> <<"1", "e", "7">>, decimals |-> 6] }
OtherRequirements ==
    { [ x402Version |-> 1, scheme |-> "exact", network |-> Devnet,
        maxAmountRequired |-> p.amount, amount |-> p.amount, resource |-> PremiumPath,
        description |-> "Premium feature", mimeType |-> "application/json",
        payTo |-> "RecipientAddress", maxTimeoutSeconds |-> 60,
        asset |-> [address |-> "USDC_ADDRESS", decimals |-> p.decimals,
                   symbol |-> "USDC"] ]
      : p \in OtherPrices }

\* What a responder other than the Ganymede server may answer: any status; a 402 with
\* the requirements under either header name, under both, undecodable, or without any.
OtherStatuses == {200, 402, 500}
OtherResponses ==
    { Response(st, NoHeader, NoTx, "other") : st \in OtherStatuses }
    \cup { Response(402, Garbage, NoTx, "other") }
    \cup { [Response(402, Base64Json(r), NoTx, "other") EXCEPT !.xPaymentRequired = NoHeader]
           : r \in OtherRequirements }
    \cup { [Response(402, Base64Json(r), NoTx, "other") EXCEPT !.paymentRequired = NoHeader]
           : r \in OtherRequirements }

\* `response.status !== 402` decides between returning and paying.
IsPaymentRequiredOrFailure(response) == response.status >= 400
IsPaymentRequired(response) == response.status = 402

\* parseInt(requirements.amount) / Math.pow(10, requirements.asset.decimals)
\*   > config.maxPayment.  maxPayment is kept in millionths, so both sides are
\* multiplied by 10^6; a NaN amount compares false.
ExceedsLimitSixDecimals(requirements, limit) ==
    LET amount == parseInt(requirements.amount)
    IN  ~amount.nan /\ amount.value > limit
ExceedsLimit(requirements, limit) ==
    LET amount == parseInt(requirements.amount)
        decimals == requirements.asset.decimals
    IN  /\ ~amount.nan
        /\ IF decimals <= 6
           THEN amount.value * Pow10(6 - decimals) > limit
           ELSE amount.value > limit * Pow10(decimals - 6)

\* The message createPaymentPayload signs (the JSON text, as its fields).
PaymentMessage(wallet, requirements, idempotencyKey, timestamp) ==
    [ x402Version |-> 1,
      scheme |-> requirements.scheme,
      network |-> requirements.network,
      amount |-> requirements.amount,
      resource |-> requirements.resource,
      payTo |-> requirements.payTo,
      timestamp |-> timestamp,
      payer |-> wallet.publicKey,
      idempotencyKey |-> idempotencyKey ]

\* The payload createPaymentPayload encodes once the wallet has signed message.
PaymentPayload(wallet, requirements, idempotencyKey, message) ==
    [ x402Version |-> 1,
      scheme |-> requirements.scheme,
      network |-> requirements.network,
      payload |-> [ message |-> message,
                    signature |-> [signer |-> wallet.publicKey, signed |-> message],
                    publicKey |-> wallet.publicKey,
                    idempotencyKey |-> idempotencyKey ] ]

\* The request of the first fetch and of the paid retry, as the server reads it.
InitialRequest(call) ==
    [ url |-> call.url, method |-> call.method,
      paymentSignature |-> NoHeader, xPayment |-> NoHeader,
      idempotencyKey |-> call.idempotencyKey ]
PaidRequestSingleAlias(call) ==
    [ url |-> call.url, method |-> call.method,
      paymentSignature |-> Base64Json(call.paymentPayload),
      xPayment |-> NoHeader,
      idempotencyKey |-> call.idempotencyKey ]
PaidRequest(call) ==
    [ url |-> call.url, method |-> call.method,
      paymentSignature |-> Base64Json(call.paymentPayload),
      xPayment |-> Base64Json(call.paymentPayload),
      idempotencyKey |-> call.idempotencyKey ]

\* The test createPaymentPayload starts with: wallet.signMessage is there.
CanSignAlways(wallet) == TRUE
CanSign(wallet) == wallet.signMessage

\* The wrapper after the first fetch resolved with response, up to its next await:
\* the 402 test, the header lookup and decoding, the ceiling check and the
\* synchronous part of createPaymentPayload (which ends calling wallet.signMessage).
AfterInitialResponse(call, response) ==
    LET seen == [call EXCEPT !.firstResponse = response]
        paymentHeader == IF response.paymentRequired # NoHeader
                         THEN response.paymentRequired
                         ELSE response.xPaymentRequired
    IN  IF ~IsPaymentRequired(response)
        THEN Return(seen, response)
        ELSE
        LET challenged == [seen EXCEPT !.challengeCount = @ + 1]
        IN  IF paymentHeader = NoHeader
            THEN Throw(challenged, "PAYMENT_DECLINED")
            ELSE IF ~Decodable(paymentHeader)
            THEN Throw(challenged, "PAYMENT_DECLINED")
            ELSE
            LET requirements == paymentHeader.value
                parsed == [challenged EXCEPT !.requirements = requirements]
            IN  IF ExceedsLimit(requirements, maxPayment)
                THEN Throw(parsed, "PAYMENT_EXCEEDED_LIMIT")
                ELSE IF ~CanSign(call.wallet)
                THEN Throw(parsed, "WALLET_SIGNING_FAILED")
                ELSE IF call.wallet.publicKey = <<>>
                THEN Throw(parsed, "WALLET_NOT_CONNECTED")
                ELSE [parsed EXCEPT
                        !.pc = "signMessage",
                        !.signCount = @ + 1,
                        !.message = PaymentMessage(call.wallet, requirements,
                                                   call.idempotencyKey, now)]

\* The wrapper after the paid fetch resolved with response; textOk tells whether
\* `await paidResponse.text()` of the rejection path resolves.
AfterPaidResponseRetrying(call, response, textOk) ==
    LET seen == [call EXCEPT !.paidResponse = response]
    IN  IF Ok(response)
        THEN Return(seen, response)
        ELSE [seen EXCEPT !.pc = "signMessage", !.signCount = @ + 1]
AfterPaidResponse(call, response, textOk) ==
    LET seen == [call EXCEPT !.paidResponse = response]
    IN  IF Ok(response)
        THEN Return(seen, response)
        ELSE IF textOk
        THEN Throw([seen EXCEPT !.bodyRead = "read"], "PAYMENT_DECLINED")
        ELSE Throw([seen EXCEPT !.bodyRead = "failed"], "NETWORK_ERROR")

(***************************************************************************)
(* The pay-per-request protocol: actions.                                  *)
(***************************************************************************)
\* No request was delivered yet.
NotHandled == [kind |-> "undefined"]

PayerAddresses == {AddressA, AddressB, UnknownAddress}
\* lastClear after clearAllIdempotencyKeys()
AllPayers == <<"*">>

PayIdle ==
    /\ now = 1
    /\ idempotencyKeys = [k \in {} |-> <<>>]
    /\ enableIdempotency = TRUE
    /\ maxPayment = 10000
    /\ calls = [c \in Slots |-> IdleCall]
    /\ production = FALSE
    /\ started = 0
    /\ clearCount = 0
    /\ invalidations = [a \in PayerAddresses |-> 0]
    /\ lastClear = <<>>
    /\ lastUse = [k \in {} |-> <<>>]
    /\ accepted = <<>>
    /\ pricing = Pricing
    /\ served = 0
    /\ handled = NotHandled
    /\ issued = <<>>

\* Date.now() advances.
Tick ==
    /\ now < MaxTime
    /\ now' = now + 1
    /\ UNCHANGED <<idempotencyKeys, enableIdempotency, maxPayment, calls, production,
                   started, clearCount, invalidations, lastClear, lastUse, accepted>>
    /\ UNCHANGED <<subVars, srvVars>>

\* The wrapped fetch called for target by wallet, up to its first await: the
\* idempotency key is obtained and the first request is sent with it.  swap tells
\* which getEnhancedSwap call, if any, is the caller.
paidFetch(c, wallet, target, swap) ==
    LET walletAddress == WalletAddress(wallet)
        cacheKey == CacheKey(target.url, target.method, walletAddress)
        got == IF enableIdempotency
               THEN getIdempotencyKey(target.url, target.method, walletAddress)
               ELSE [key |-> generateIdempotencyKey(target.url, target.method,
                                                    walletAddress, now),
                     map |-> idempotencyKeys]
        known == cacheKey \in DOMAIN lastUse
    IN  /\ calls' = [calls EXCEPT ![c] =
              [IdleCall EXCEPT
                  !.pc = "initialFetch",
                  !.wallet = wallet,
                  !.url = target.url,
                  !.method = target.method,
                  !.startedAt = now,
                  !.idempotencyKey = got.key,
                  !.fetchCount = 1,
                  !.prevToken = IF known THEN lastUse[cacheKey].token ELSE NoToken,
                  !.clearedSincePrev = known /\ lastUse[cacheKey].clears < clearCount,
                  !.invalidatedSincePrev =
                      known /\ lastUse[cacheKey].invalidations
                                 < invalidations[walletAddress],
                  !.prevMessage = IF calls[c].message = NoMessage
                                  THEN NoMessage
                                  ELSE IF calls[c].message.idempotencyKey = got.key
                                  THEN calls[c].message
                                  ELSE NoMessage,
                  !.epoch = clearCount,
                  !.swap = swap]]
        /\ idempotencyKeys' = got.map
        /\ lastUse' = (cacheKey :> [token |-> got.key, clears |-> clearCount,
                                    invalidations |-> invalidations[walletAddress]])
                      @@ lastUse

\* A logical call of the wrapped fetch by a caller of the wrapper.
WrappedFetch(c) ==
    /\ calls[c].pc \in {"idle", "done"}
    /\ started < MaxCalls
    /\ \E wallet \in ClientWallets, target \in Targets :
        paidFetch(c, wallet, target, NoSwap)
    /\ started' = started + 1
    /\ UNCHANGED <<now, enableIdempotency, maxPayment, production,
                   clearCount, invalidations, lastClear, accepted>>
    /\ UNCHANGED <<subVars, srvVars>>

\* params.mevProtection || params.optimizePriorityFee || params.includeAnalytics
hasPremiumFeaturesAlways(params) == TRUE
hasPremiumFeatures(params) ==
    params.mevProtection \/ params.optimizePriorityFee \/ params.includeAnalytics

\* client.getEnhancedSwap(params), up to its first await on the paid endpoint or, on the
\* free tier, to the end of buildSwap (which asks Jupiter only, and succeeds or fails).
GetEnhancedSwap(c) ==
    /\ calls[c].pc \in {"idle", "done"}
    /\ started < MaxCalls
    /\ \E wallet \in ClientWallets, connected \in BOOLEAN, params \in SwapParams,
          enablePremium \in BOOLEAN, built \in BOOLEAN :
        LET swap(tier) == [ tier |-> tier, enablePremium |-> enablePremium,
                           connected |-> connected, params |-> params ]
            caller(tier) == [IdleCall EXCEPT !.wallet = wallet, !.startedAt = now,
                                             !.swap = swap(tier)]
        IN  IF ~connected \/ wallet.publicKey = <<>>
            THEN /\ calls' = [calls EXCEPT ![c] =
                                Throw(caller("invalid"), "WALLET_NOT_CONNECTED")]
                 /\ UNCHANGED <<idempotencyKeys, lastUse>>
            ELSE IF ~hasPremiumFeatures(params) \/ ~enablePremium
            THEN /\ calls' = [calls EXCEPT ![c] =
                                IF built
                                THEN Ended(caller("free"),
                                           [kind |-> "swapResult", response |-> NoResponse,
                                            code |-> "none"])
                                ELSE Throw(caller("free"), "SWAP_FAILED")]
                 /\ UNCHANGED <<idempotencyKeys, lastUse>>
            ELSE paidFetch(c, wallet, [url |-> PremiumPath, method |-> POST],
                           swap("premium"))
    /\ started' = started + 1
    /\ UNCHANGED <<now, enableIdempotency, maxPayment, production,
                   clearCount, invalidations, lastClear, accepted>>
    /\ UNCHANGED <<subVars, srvVars>>

\* The payments the middleware has verified, after it handled req with result out.
Accept(call, req, out) ==
    IF out.verified
    THEN Append(accepted, [idempotencyKey |-> req.idempotencyKey, epoch |-> call.epoch])
    ELSE accepted

\* The first request reaches the Ganymede server and its response reaches the wrapper.
InitialFetchServer(c) ==
    /\ calls[c].pc = "initialFetch"
    /\ \E facilitator \in FacilitatorBehaviours, random \in Randoms,
          handlerStatus \in HandlerStatuses :
        LET req == InitialRequest(calls[c])
            out == paymentMiddleware(req, facilitator, random, handlerStatus)
        IN  /\ accepted' = Accept(calls[c], req, out)
            /\ calls' = [calls EXCEPT ![c] = AfterInitialResponse(calls[c], out.response)]
    /\ UNCHANGED <<now, idempotencyKeys, enableIdempotency, maxPayment, production,
                   started, clearCount, invalidations, lastClear, lastUse>>
    /\ UNCHANGED <<subVars, srvVars>>

\* The first request is answered by some other responder.
InitialFetchOther(c) ==
    /\ calls[c].pc = "initialFetch"
    /\ \E response \in OtherResponses :
        calls' = [calls EXCEPT ![c] = AfterInitialResponse(calls[c], response)]
    /\ UNCHANGED <<now, idempotencyKeys, enableIdempotency, maxPayment, production,
                   started, clearCount, invalidations, lastClear, lastUse, accepted>>
    /\ UNCHANGED <<subVars, srvVars>>

\* A fetch fails before any responder saw the request, or runs into the timeout of
\* fetchWithTimeout: the wrapper throws NETWORK_ERROR.
FetchFails(c) ==
    /\ calls[c].pc \in {"initialFetch", "paidFetch"}
    /\ calls' = [calls EXCEPT ![c] = Throw(calls[c], "NETWORK_ERROR")]
    /\ UNCHANGED <<now, idempotencyKeys, enableIdempotency, maxPayment, production,
                   started, clearCount, invalidations, lastClear, lastUse, accepted>>
    /\ UNCHANGED <<subVars, srvVars>>

\* await wallet.signMessage(messageBytes) resolves: the payload is encoded and the
\* request is sent again with it.
SignMessageResolves(c) ==
    /\ calls[c].pc = "signMessage"
    /\ calls' = [calls EXCEPT ![c] =
                    [calls[c] EXCEPT
                        !.pc = "paidFetch",
                        !.paymentPayload = PaymentPayload(calls[c].wallet,
                                               calls[c].requirements,
                                               calls[c].idempotencyKey, calls[c].message),
                        !.paidCount = @ + 1,
                        !.fetchCount = @ + 1]]
    /\ UNCHANGED <<now, idempotencyKeys, enableIdempotency, maxPayment, production,
                   started, clearCount, invalidations, lastClear, lastUse, accepted>>
    /\ UNCHANGED <<subVars, srvVars>>

\* await wallet.signMessage(messageBytes) rejects with the wallet's own error, which
\* the catch of the wrapper wraps.
SignMessageRejects(c) ==
    /\ calls[c].pc = "signMessage"
    /\ calls' = [calls EXCEPT ![c] = Throw(calls[c], "NETWORK_ERROR")]
    /\ UNCHANGED <<now, idempotencyKeys, enableIdempotency, maxPayment, production,
                   started, clearCount, invalidations, lastClear, lastUse, accepted>>
    /\ UNCHANGED <<subVars, srvVars>>

\* What becomes of a response the server has sent: it is lost on the way back (the
\* fetch fails), or it arrives, with a body that text() can or cannot read.
Arrivals == {"lost", "unreadable", "readable"}

\* The paid request reaches the Ganymede server, which handles it.
PaidFetchServer(c) ==
    /\ calls[c].pc = "paidFetch"
    /\ \E facilitator \in FacilitatorBehaviours, random \in Randoms,
          handlerStatus \in HandlerStatuses, arrival \in Arrivals :
        LET req == PaidRequest(calls[c])
            out == paymentMiddleware(req, facilitator, random, handlerStatus)
        IN  /\ accepted' = Accept(calls[c], req, out)
            /\ calls' = [calls EXCEPT ![c] =
                            IF arrival = "lost"
                            THEN Throw(calls[c], "NETWORK_ERROR")
                            ELSE AfterPaidResponse(calls[c], out.response,
                                                   arrival = "readable")]
    /\ UNCHANGED <<now, idempotencyKeys, enableIdempotency, maxPayment, production,
                   started, clearCount, invalidations, lastClear, lastUse>>
    /\ UNCHANGED <<subVars, srvVars>>

\* The paid request is answered by some other responder.
PaidFetchOther(c) ==
    /\ calls[c].pc = "paidFetch"
    /\ \E status \in OtherStatuses, textOk \in BOOLEAN :
        calls' = [calls EXCEPT ![c] =
            AfterPaidResponse(calls[c], Response(status, NoHeader, NoTx, "other"), textOk)]
    /\ UNCHANGED <<now, idempotencyKeys, enableIdempotency, maxPayment, production,
                   started, clearCount, invalidations, lastClear, lastUse, accepted>>
    /\ UNCHANGED <<subVars, srvVars>>

\* clearIdempotencyKeys(walletAddress)
ClearIdempotencyKeys(walletAddress) ==
    /\ clearCount < MaxClears
    /\ idempotencyKeys' = clearIdempotencyKeys(walletAddress)
    /\ clearCount' = clearCount + 1
    /\ invalidations' = [invalidations EXCEPT ![walletAddress] = @ + 1]
    /\ lastClear' = walletAddress
    /\ UNCHANGED <<now, enableIdempotency, maxPayment, calls, production,
                   started, lastUse, accepted>>
    /\ UNCHANGED <<subVars, srvVars>>

\* clearAllIdempotencyKeys()
ClearAllIdempotencyKeys ==
    /\ clearCount < MaxClears
    /\ idempotencyKeys' = clearAllIdempotencyKeys
    /\ clearCount' = clearCount + 1
    /\ invalidations' = [a \in PayerAddresses |-> invalidations[a] + 1]
    /\ lastClear' = AllPayers
    /\ UNCHANGED <<now, enableIdempotency, maxPayment, calls, production,
                   started, lastUse, accepted>>
    /\ UNCHANGED <<subVars, srvVars>>

\* The header values of the requests delivered to a middleware on its own: none,
\* text that is not base64 of JSON, JSON null, and payloads of either version for
\* either network.
ServerHeaders ==
    {NoHeader, Garbage, Base64Null}
    \cup { Base64Json([x402Version |-> version, network |-> network]) :
              version \in {1, 2}, network \in {Devnet, Mainnet} }

\* Those requests: the payload travels as Payment-Signature or, when it has version 1,
\* as X-Payment.
ServerRequests ==
    { [ url |-> target.url, method |-> target.method,
        paymentSignature |-> header, xPayment |-> NoHeader,
        idempotencyKey |-> NoToken ] :
      target \in Targets, header \in ServerHeaders }
    \cup
    { [ url |-> target.url, method |-> target.method,
        paymentSignature |-> NoHeader, xPayment |-> header,
        idempotencyKey |-> NoToken ] :
      target \in Targets,
      header \in { h \in ServerHeaders : Decodable(h) /\ h.value.x402Version = 1 } }

\* No verify call was issued.
NotContacted == [reach |-> "none", valid |-> FALSE, txHash |-> NoTx, message |-> "undefined"]

\* A request reaches the middleware and is handled to the end: by the middleware alone,
\* or by the middleware, the verifier and the route handler.
HandleRequest ==
    /\ served < MaxRequests
    /\ \E req \in ServerRequests, facilitator \in FacilitatorBehaviours,
          random \in Randoms, handlerStatus \in HandlerStatuses :
        LET out == paymentMiddleware(req, facilitator, random, handlerStatus)
        IN  /\ handled' = [ req |-> req,
                            facilitator |-> IF out.verification.fetchCalls > 0
                                            THEN facilitator ELSE NotContacted,
                            at |-> now,
                            out |-> out ]
            /\ issued' = IF IsPseudo(out.txHash)
                         THEN Append(issued, [ txHash |-> out.txHash, time |-> now,
                                               random |-> random ])
                         ELSE issued
    /\ served' = served + 1
    /\ UNCHANGED <<pricing, payVars, subVars>>

ServerNext ==
    \/ Tick
    \/ HandleRequest

\* A Facilitator that accepts the connection of the verify call and never answers.
Silent == [reach |-> "silent", valid |-> FALSE, txHash |-> NoTx, message |-> "undefined"]

\* The outcome of a request whose verify call to the Facilitator is out.
Awaited == [kind |-> "awaited"]

\* The middleware is suspended in `await fetch(`${facilitatorUrl}/verify`, ...)`.
Awaiting == handled # NotHandled /\ handled.out = Awaited

\* A request reaches the middleware, which runs up to its answer or, when verifyPayment
\* gets as far as the verify call, up to the await of that fetch.
ReceiveRequest ==
    /\ served < MaxRequests
    /\ ~Awaiting
    /\ \E req \in ServerRequests, facilitator \in FacilitatorBehaviours \cup {Silent},
          random \in Randoms, handlerStatus \in HandlerStatuses :
        LET out == paymentMiddleware(req, NotContacted, random, handlerStatus)
        IN  IF out.verification.fetchCalls = 0
            THEN /\ handled' = [ req |-> req, facilitator |-> NotContacted, at |-> now,
                                 out |-> out ]
                 /\ served' = served + 1
            ELSE /\ handled' = [ req |-> req, facilitator |-> facilitator, at |-> now,
                                 out |-> Awaited ]
                 /\ UNCHANGED served
    /\ UNCHANGED <<pricing, issued, payVars, subVars>>

\* The fetch of the verify call settles (the Facilitator answered, or the connection
\* failed and .catch gave null), and verifyPayment, the middleware and the handler run
\* to the end.  The fetch has no signal and no timer: it settles only when the
\* Facilitator or the network makes it settle.
FacilitatorSettles ==
    /\ Awaiting
    /\ handled.facilitator # Silent
    /\ \E random \in Randoms, handlerStatus \in HandlerStatuses :
        LET out == paymentMiddleware(handled.req, handled.facilitator, random,
                                     handlerStatus)
        IN  /\ handled' = [handled EXCEPT !.out = out, !.at = now]
            /\ issued' = IF IsPseudo(out.txHash)
                         THEN Append(issued, [ txHash |-> out.txHash, time |-> now,
                                               random |-> random ])
                         ELSE issued
    /\ served' = served + 1
    /\ UNCHANGED <<pricing, payVars, subVars>>

\* The middleware with the verify call as a step of its own.
AnswerNext ==
    \/ Tick
    \/ ReceiveRequest
    \/ FacilitatorSettles

\* The caller aborts the signal it passed in init while call c is in flight.  The
\* wrapper has no listener on it, and fetchWithTimeout replaces it in the init of each
\* fetch by the signal of its own timeout controller.
CallerAborts(c) ==
    /\ calls[c].pc \in {"initialFetch", "signMessage", "paidFetch"}
    /\ ~calls[c].aborted
    /\ calls' = [calls EXCEPT
                    ![c].aborted = TRUE,
                    ![c].abortedAt = [ pc |-> calls[c].pc,
                                       fetchCount |-> calls[c].fetchCount,
                                       signCount |-> calls[c].signCount ]]
    /\ UNCHANGED <<now, idempotencyKeys, enableIdempotency, maxPayment, production,
                   started, clearCount, invalidations, lastClear, lastUse, accepted>>
    /\ UNCHANGED <<subVars, srvVars>>

PayNext ==
    \/ Tick
    \/ \E c \in DOMAIN calls : WrappedFetch(c)
    \/ \E c \in DOMAIN calls : InitialFetchServer(c)
    \/ \E c \in DOMAIN calls : InitialFetchOther(c)
    \/ \E c \in DOMAIN calls : FetchFails(c)
    \/ \E c \in DOMAIN calls : SignMessageResolves(c)
    \/ \E c \in DOMAIN calls : SignMessageRejects(c)
    \/ \E c \in DOMAIN calls : PaidFetchServer(c)
    \/ \E c \in DOMAIN calls : PaidFetchOther(c)

\* The wrapped fetch with callers that abort the signal they passed.
AbortNext ==
    \/ PayNext
    \/ \E c \in DOMAIN calls : CallerAborts(c)

\* The registry under operations in flight together: each logical call reads or inserts
\* its entry when it starts, stays in flight while its request is out, and ends; the
\* clear functions are called at any time.
ConcurrentNext ==
    \/ Tick
    \/ \E c \in DOMAIN calls : WrappedFetch(c)
    \/ \E c \in DOMAIN calls : InitialFetchOther(c)
    \/ \E c \in DOMAIN calls : FetchFails(c)
    \/ \E a \in {AddressA, AddressB} : ClearIdempotencyKeys(a)
    \/ ClearAllIdempotencyKeys

\* The paid wrapper as GanymedeClient uses it: every logical call is a getEnhancedSwap.
EnhancedNext ==
    \/ Tick
    \/ \E c \in DOMAIN calls : GetEnhancedSwap(c)
    \/ \E c \in DOMAIN calls : InitialFetchServer(c)
    \/ \E c \in DOMAIN calls : InitialFetchOther(c)
    \/ \E c \in DOMAIN calls : FetchFails(c)
    \/ \E c \in DOMAIN calls : SignMessageResolves(c)
    \/ \E c \in DOMAIN calls : SignMessageRejects(c)
    \/ \E c \in DOMAIN calls : PaidFetchServer(c)
    \/ \E c \in DOMAIN calls : PaidFetchOther(c)

\* The wrapped fetch together with the callers of the registry's two clear functions.
RegistryNext ==
    \/ PayNext
    \/ \E a \in {AddressA, AddressB} : ClearIdempotencyKeys(a)
    \/ ClearAllIdempotencyKeys

(***************************************************************************)
(* Specifications.                                                         *)
(***************************************************************************)
SubInit == SubIdle /\ PayIdle

\* Every ledger call returns or fails and every timer fires: the call keeps stepping.
SubmitSpec == SubInit /\ [][SubNext]_vars /\ WF_vars(SwapStep)

\* The wrappers of a behaviour share one configuration; the server runs in
\* production or in development mode.
PayInit ==
    /\ SubIdle
    /\ now = 1
    /\ idempotencyKeys = [k \in {} |-> <<>>]
    /\ enableIdempotency \in BOOLEAN
    /\ maxPayment \in MaxPayments
    /\ calls = [c \in Slots |-> IdleCall]
    /\ production \in BOOLEAN
    /\ started = 0
    /\ clearCount = 0
    /\ invalidations = [a \in PayerAddresses |-> 0]
    /\ lastClear = <<>>
    /\ lastUse = [k \in {} |-> <<>>]
    /\ accepted = <<>>
    /\ pricing = Pricing
    /\ served = 0
    /\ handled = NotHandled
    /\ issued = <<>>

PaySpec == PayInit /\ [][PayNext]_vars

\* The wrapped fetch of a process with the default configuration, whose callers may
\* abort their calls.
AbortSpec == SubInit /\ [][AbortNext]_vars

\* A middleware created with some pricing table, in production or in development
\* mode, and the requests that reach it.
ServerInit ==
    /\ SubIdle
    /\ now = 1
    /\ idempotencyKeys = [k \in {} |-> <<>>]
    /\ enableIdempotency = TRUE
    /\ maxPayment = 10000
    /\ calls = [c \in Slots |-> IdleCall]
    /\ production \in BOOLEAN
    /\ started = 0
    /\ clearCount = 0
    /\ invalidations = [a \in PayerAddresses |-> 0]
    /\ lastClear = <<>>
    /\ lastUse = [k \in {} |-> <<>>]
    /\ accepted = <<>>
    /\ pricing \in PricingTables
    /\ served = 0
    /\ handled = NotHandled
    /\ issued = <<>>

ServerSpec == ServerInit /\ [][ServerNext]_vars

\* The middleware whose verify calls are awaited: a fetch that can settle does settle,
\* and the continuation of the middleware then runs.
AnswerSpec == ServerInit /\ [][AnswerNext]_vars /\ WF_vars(FacilitatorSettles)

\* The registry of a process whose wrappers keep the default enableIdempotency, with
\* the keys being cleared between and during the calls.
RegistrySpec == SubInit /\ [][RegistryNext]_vars

\* Two paid operations in flight at once in one process, which also calls the clear
\* functions of the registry.
ConcurrentSlots == {1, 2}
ConcurrentInit ==
    /\ SubIdle
    /\ now = 1
    /\ idempotencyKeys = [k \in {} |-> <<>>]
    /\ enableIdempotency = TRUE
    /\ maxPayment = 10000
    /\ calls = [c \in ConcurrentSlots |-> IdleCall]
    /\ production = FALSE
    /\ started = 0
    /\ clearCount = 0
    /\ invalidations = [a \in PayerAddresses |-> 0]
    /\ lastClear = <<>>
    /\ lastUse = [k \in {} |-> <<>>]
    /\ accepted = <<>>
    /\ pricing = Pricing
    /\ served = 0
    /\ handled = NotHandled
    /\ issued = <<>>

ConcurrentSpec == ConcurrentInit /\ [][ConcurrentNext]_vars

\* Clients with the default payment configuration, against a server in either mode.
EnhancedInit ==
    /\ SubIdle
    /\ now = 1
    /\ idempotencyKeys = [k \in {} |-> <<>>]
    /\ enableIdempotency = TRUE
    /\ maxPayment \in MaxPayments
    /\ calls = [c \in Slots |-> IdleCall]
    /\ production \in BOOLEAN
    /\ started = 0
    /\ clearCount = 0
    /\ invalidations = [a \in PayerAddresses |-> 0]
    /\ lastClear = <<>>
    /\ lastUse = [k \in {} |-> <<>>]
    /\ accepted = <<>>
    /\ pricing = Pricing
    /\ served = 0
    /\ handled = NotHandled
    /\ issued = <<>>

EnhancedSpec == EnhancedInit /\ [][EnhancedNext]_vars

(***************************************************************************)
(* Properties of the pay-per-request protocol.                             *)
(***************************************************************************)
\* The requirements a call has decoded from its 402 challenge.
Challenged(call) == call.requirements # NoRequirements

\* amount / 10^decimals > ceiling for an amount of value units, the ceiling being
\* limit millionths: value > limit * 10^(decimals - 6), over the integers.
OverCeiling(value, decimals, limit) ==
    IF decimals <= 6
    THEN value > limit \div Pow10(6 - decimals)
    ELSE value > limit * Pow10(decimals - 6)

\* C1: a call whose 402 challenge asks for more than config.maxPayment (the amount
\* read as the code reads it, parseInt) has ended with PAYMENT_EXCEEDED_LIMIT, with
\* wallet.signMessage never called and no paid request sent, after its one request.
C1_CeilingEnforced ==
    \A c \in DOMAIN calls :
        LET call == calls[c]
            amount == parseInt(call.requirements.amount)
        IN  ( /\ Challenged(call)
              /\ ~amount.nan
              /\ OverCeiling(amount.value, call.requirements.asset.decimals, maxPayment) )
            => /\ call.pc = "done"
               /\ call.result.kind = "error"
               /\ call.result.code = "PAYMENT_EXCEEDED_LIMIT"
               /\ call.signCount = 0
               /\ call.paidCount = 0
               /\ call.fetchCount = 1

\* C1 witness: a call refused a challenge of 5000 units of a 2-decimal asset (50.00,
\* above the ceiling although 5000 millionths would be below it).
C1_Witness ==
    \E c \in DOMAIN calls :
        /\ Challenged(calls[c])
        /\ calls[c].requirements.asset.decimals = 2
        /\ parseInt(calls[c].requirements.amount).value = 5000
        /\ calls[c].result.code = "PAYMENT_EXCEEDED_LIMIT"

\* The counters of one logical call: one unpaid request, then at most one signing call,
\* then at most one paid request, and signing only after the one 402 was observed.
NeverLooped(call) ==
    /\ call.fetchCount <= 2
    /\ call.signCount <= 1
    /\ call.paidCount <= 1
    /\ call.challengeCount <= 1
    /\ call.pc # "idle" => call.fetchCount = 1 + call.paidCount
    /\ call.signCount = 1 => call.challengeCount = 1
    /\ call.paidCount = 1 => call.signCount = 1
    /\ call.pc = "signMessage" => (call.signCount = 1 /\ call.paidCount = 0)
    /\ call.pc = "paidFetch" => call.paidCount = 1

\* The paid request of the call was answered with a non-success status.
PaidRefused(call) == call.paidResponse # NoResponse /\ ~Ok(call.paidResponse)

\* C2 as stated: the payment step is never looped and a non-success response to the
\* paid request ends the call with PAYMENT_DECLINED, with no further request or signing.
C2_NeverLoopedDeclined ==
    \A c \in DOMAIN calls :
        /\ NeverLooped(calls[c])
        /\ PaidRefused(calls[c]) =>
              /\ calls[c].pc = "done"
              /\ calls[c].result.kind = "error"
              /\ calls[c].result.code = "PAYMENT_DECLINED"

\* C2 amended: the payment step is never looped and a non-success response to the paid
\* request ends the call with an error, with no further request or signing; the error
\* is PAYMENT_DECLINED when the body of that response could be read and NETWORK_ERROR
\* when reading it failed.
C2_NeverLoopedTerminal ==
    \A c \in DOMAIN calls :
        /\ NeverLooped(calls[c])
        /\ PaidRefused(calls[c]) =>
              /\ calls[c].pc = "done"
              /\ calls[c].result.kind = "error"
              /\ calls[c].bodyRead = "read" => calls[c].result.code = "PAYMENT_DECLINED"
              /\ calls[c].bodyRead = "failed" => calls[c].result.code = "NETWORK_ERROR"
              /\ calls[c].bodyRead # "no"
              /\ calls[c].signCount = 1
              /\ calls[c].fetchCount = 2

\* C2 witness: the Ganymede server answered the paid request of a call with 402
\* 'Payment Invalid' and the call ended with PAYMENT_DECLINED after two requests.
C2_Witness ==
    \E c \in DOMAIN calls :
        /\ PaidRefused(calls[c])
        /\ calls[c].paidResponse.body = "Payment Invalid"
        /\ calls[c].result.code = "PAYMENT_DECLINED"
        /\ calls[c].fetchCount = 2

\* C3: with idempotency enabled and no invalidation, the server verifies at most one
\* payment for one idempotency token.
C3_NoDoubleCharge ==
    enableIdempotency =>
        \A i, j \in DOMAIN accepted :
            ( /\ accepted[i].idempotencyKey = accepted[j].idempotencyKey
              /\ accepted[i].epoch = accepted[j].epoch ) => i = j

\* The call in slot c follows an earlier call for the same (payer, url, method).
Repeated(call) == call.pc \in {"initialFetch", "signMessage", "paidFetch"}
                  /\ call.prevToken # NoToken

\* C4: with idempotency enabled, a call for a (payer, url, method) that was used before
\* and not invalidated since uses the token of the earlier call, whatever happened and
\* however much time passed in between.
C4_TokenStable ==
    \A c \in DOMAIN calls :
        ( /\ enableIdempotency
          /\ Repeated(calls[c])
          /\ ~calls[c].invalidatedSincePrev )
        => calls[c].idempotencyKey = calls[c].prevToken

\* C4 witness: a repeated call made at a later time, after the keys of another payer
\* were cleared, whose token is not the one that would be generated now.
C4_Witness ==
    \E c \in DOMAIN calls :
        /\ enableIdempotency
        /\ Repeated(calls[c])
        /\ ~calls[c].invalidatedSincePrev
        /\ calls[c].clearedSincePrev
        /\ calls[c].idempotencyKey = calls[c].prevToken
        /\ calls[c].idempotencyKey #
               generateIdempotencyKey(calls[c].url, calls[c].method,
                                      WalletAddress(calls[c].wallet), calls[c].startedAt)

\* C5: the first call for a (payer, url, method) after clearIdempotencyKeys(payer) or
\* clearAllIdempotencyKeys() uses a token different from the one used before, and the
\* entries of the payers that were not invalidated are as they were.
C5_InvalidationYieldsNewToken ==
    /\ \A c \in DOMAIN calls :
          ( /\ enableIdempotency
            /\ Repeated(calls[c])
            /\ calls[c].invalidatedSincePrev )
          => calls[c].idempotencyKey # calls[c].prevToken
    /\ \A k \in DOMAIN lastUse :
          ( /\ enableIdempotency
            /\ \E a \in PayerAddresses :
                  KeyOfPayer(k, a) /\ lastUse[k].invalidations = invalidations[a] )
          => (k \in DOMAIN idempotencyKeys /\ idempotencyKeys[k] = lastUse[k].token)

\* C6: a call whose first response is not a 402 has made exactly one network call and
\* no signing call, and has returned that very response.
C6_PassThrough ==
    \A c \in DOMAIN calls :
        ( /\ calls[c].firstResponse # NoResponse
          /\ calls[c].firstResponse.status # 402 )
        => /\ calls[c].pc = "done"
           /\ calls[c].fetchCount = 1
           /\ calls[c].signCount = 0
           /\ calls[c].challengeCount = 0
           /\ calls[c].result.kind = "response"
           /\ calls[c].result.response = calls[c].firstResponse

\* C6 witness: a first response of status 500 was returned to the caller.
C6_Witness ==
    \E c \in DOMAIN calls :
        /\ calls[c].firstResponse.status = 500
        /\ calls[c].result.kind = "response"
        /\ calls[c].result.response.status = 500

\* The header of a 402 response the wrapper reads the requirements from.
PaymentHeader(response) ==
    IF response.paymentRequired # NoHeader
    THEN response.paymentRequired
    ELSE response.xPaymentRequired

\* The call has ended throwing code after its first request, without a call of
\* signMessage, without a payload and without a second request.
FailedBeforePaying(call, code) ==
    /\ call.pc = "done"
    /\ call.result.kind = "error"
    /\ call.result.code = code
    /\ call.signCount = 0
    /\ call.paymentPayload = NoPayload
    /\ call.paidCount = 0
    /\ call.fetchCount = 1

\* The step of call c in which the response to its first request arrives and is a 402.
ChallengeArrives(c) ==
    /\ calls[c].pc = "initialFetch"
    /\ calls'[c].firstResponse # NoResponse
    /\ IsPaymentRequired(calls'[c].firstResponse)

\* C18: every failure before the paid retry is terminal and sends nothing more: when
\* the 402 has the requirement under neither header name or the header cannot be
\* decoded, the call fails with PAYMENT_DECLINED; when the wrapper gets to sign (the
\* requirement is decoded and within the ceiling) and the wallet has no signMessage, the
\* call fails with WALLET_SIGNING_FAILED; in these cases signMessage is not called, no
\* payload is produced and no second request is sent.
C18_TerminalBeforePaying ==
    [][\A c \in DOMAIN calls :
          ChallengeArrives(c) =>
          LET header == PaymentHeader(calls'[c].firstResponse)
          IN  /\ (header = NoHeader \/ ~Decodable(header)) =>
                     FailedBeforePaying(calls'[c], "PAYMENT_DECLINED")
              /\ (Decodable(header) /\ ~ExceedsLimit(header.value, maxPayment)
                      /\ ~calls[c].wallet.signMessage) =>
                     FailedBeforePaying(calls'[c], "WALLET_SIGNING_FAILED")]_vars

\* A call of a wallet without signMessage has ended on a challenge of the server it
\* could have afforded.
C18_Witness ==
    \E c \in DOMAIN calls :
        /\ FailedBeforePaying(calls[c], "WALLET_SIGNING_FAILED")
        /\ Decodable(PaymentHeader(calls[c].firstResponse))
        /\ calls[c].firstResponse.body = "Payment Required"
        /\ ~ExceedsLimit(calls[c].requirements, maxPayment)

\* C19: an abort of the signal the caller passed, raised at any point of the logical
\* call, propagates into the network call in flight and ends the wrapper call: after it
\* the call issues no further request and no signMessage call and does not return a
\* response; and either the whole signed authorization has been sent or no paid request
\* at all.
C19_AbortPropagates ==
    \A c \in DOMAIN calls :
        calls[c].aborted =>
            /\ calls[c].fetchCount = calls[c].abortedAt.fetchCount
            /\ calls[c].signCount = calls[c].abortedAt.signCount
            /\ calls[c].result.kind # "response"
            /\ calls[c].paidCount \in {0, 1}
            /\ calls[c].pc = "paidFetch" => calls[c].paymentPayload # NoPayload

\* The kinds of error the wrapper throws itself.
WrapperErrorCodes ==
    { "PAYMENT_DECLINED", "PAYMENT_EXCEEDED_LIMIT", "WALLET_SIGNING_FAILED",
      "WALLET_NOT_CONNECTED", "NETWORK_ERROR" }

\* The call ended because a network call failed: the first fetch or the paid fetch
\* brought no response, or the body of the paid response could not be read.
NetworkFailed(call) ==
    \/ call.fetchCount = 1 /\ call.signCount = 0 /\ call.firstResponse = NoResponse
    \/ call.paidCount = 1 /\ call.paidResponse = NoResponse
    \/ call.paidCount = 1 /\ call.bodyRead = "failed"

\* C20: every error that leaves the wrapper is a GanymedeError with a kind, and
\* NETWORK_ERROR is raised exactly when a network call failed or timed out, never for a
\* failure of the payment (ceiling exceeded, payment declined, signing unsupported or
\* signing failed).
C20_NetworkErrorOnlyForNetwork ==
    \A c \in DOMAIN calls :
        (calls[c].pc = "done" /\ calls[c].result.kind = "error") =>
            /\ calls[c].result.code \in WrapperErrorCodes
            /\ calls[c].result.code = "NETWORK_ERROR" <=> NetworkFailed(calls[c])

\* An authorization was built for the idempotency key of the call by the call before
\* it, and the wallet has been asked to sign in this call.
SignedAgain(call) == call.prevMessage # NoMessage /\ call.signCount > 0

\* C22: an AuthorizationPayload is built once per idempotency key and reused verbatim:
\* over the logical calls that use one idempotency token the wrapper sends at most one
\* distinct authorization (same claim, same timestamp, same signature) and calls
\* wallet.signMessage at most once.
C22_BuiltOncePerKey ==
    \A c \in DOMAIN calls : ~SignedAgain(calls[c])

\* The middleware treats req alike whether its authorization travels as
\* Payment-Signature alone, as X-Payment alone, or as both.
AliasesAlike(req) ==
    \A facilitator \in FacilitatorBehaviours, random \in Randoms,
       handlerStatus \in HandlerStatuses :
        LET both == paymentMiddleware(req, facilitator, random, handlerStatus)
            first == paymentMiddleware([req EXCEPT !.xPayment = NoHeader],
                                       facilitator, random, handlerStatus)
            second == paymentMiddleware([req EXCEPT !.paymentSignature = NoHeader],
                                        facilitator, random, handlerStatus)
        IN  first = both /\ second = both

\* C25: within one logical call the idempotency token is obtained once; the same token
\* is the x-idempotency-key of the unpaid request and of the paid retry and is part of
\* the signed claim; the paid retry carries the same authorization as payment-signature
\* and as x-payment, and the server accepts the authorization under either name alone.
C25_OneTokenTwoAliases ==
    \A c \in DOMAIN calls :
        calls[c].pc = "paidFetch" =>
        LET unpaid == InitialRequest(calls[c])
            paid == PaidRequest(calls[c])
        IN  /\ unpaid.idempotencyKey # NoToken
            /\ paid.idempotencyKey = unpaid.idempotencyKey
            /\ calls[c].message.idempotencyKey = unpaid.idempotencyKey
            /\ Decodable(paid.paymentSignature)
            /\ paid.xPayment = paid.paymentSignature
            /\ paid.paymentSignature.value.payload.message = calls[c].message
            /\ paid.paymentSignature.value.payload.idempotencyKey = unpaid.idempotencyKey
            /\ AliasesAlike(paid)

\* A paid retry is in flight which the server accepts when it arrives under X-Payment
\* alone.
C25_Witness ==
    \E c \in DOMAIN calls :
        /\ calls[c].pc = "paidFetch"
        /\ calls[c].firstResponse.body = "Payment Required"
        /\ \E facilitator \in FacilitatorBehaviours :
              paymentMiddleware([PaidRequest(calls[c]) EXCEPT !.paymentSignature = NoHeader],
                                facilitator, <<"k", "3", "f", "9">>, 200).verified

\* The logical call is in flight.
InFlight(call) == call.pc \in {"initialFetch", "signMessage", "paidFetch"}

\* The registry key of the logical call.
KeyOf(call) == CacheKey(call.url, call.method, WalletAddress(call.wallet))

\* Operations in flight together for one (payer, url, method), started without an
\* invalidation in between, hold one token, which is the entry of the registry while
\* no invalidation has happened since.
SameTokenInFlight ==
    \A c, d \in DOMAIN calls :
        ( /\ InFlight(calls[c]) /\ InFlight(calls[d])
          /\ KeyOf(calls[c]) = KeyOf(calls[d])
          /\ calls[c].epoch = calls[d].epoch )
        => /\ calls[c].idempotencyKey = calls[d].idempotencyKey
           /\ calls[c].epoch = clearCount =>
                  /\ KeyOf(calls[c]) \in DOMAIN idempotencyKeys
                  /\ idempotencyKeys[KeyOf(calls[c])] = calls[c].idempotencyKey

\* A step leaves every entry of the registry as it is, or is an invalidation that
\* deletes it.
WriteOnce ==
    \A k \in DOMAIN idempotencyKeys :
        IF k \in DOMAIN idempotencyKeys'
        THEN idempotencyKeys'[k] = idempotencyKeys[k]
        ELSE clearCount' = clearCount + 1

\* C26: the Idempotency Registry is race-free and write-once: under every interleaving
\* of paid operations in flight in one process, the operations with the same (payer,
\* url, method) obtain the same token, at most one entry is inserted per key between
\* invalidations, and no operation other than an invalidation overwrites an entry.
C26_RegistryWriteOnce == [](SameTokenInFlight) /\ [][WriteOnce]_vars

\* Two operations for one key are in flight together; the second started later, when
\* a generated token would have been another one.
C26_Witness ==
    /\ InFlight(calls[1]) /\ InFlight(calls[2])
    /\ KeyOf(calls[1]) = KeyOf(calls[2])
    /\ calls[1].startedAt # calls[2].startedAt
    /\ calls[1].idempotencyKey = calls[2].idempotencyKey
    /\ clearCount = 1 /\ calls[1].epoch = 1 /\ calls[2].epoch = 1

\* str is a non-empty string of decimal digits.
WellFormedAmount(str) == Len(str) > 0 /\ \A i \in 1..Len(str) : IsDigit(str[i])

\* C28: the ceiling check cannot be bypassed by the content of the challenge:
\* wallet.signMessage is called only when the amount of the requirement is a
\* well-formed non-negative integer string whose value divided by 10^asset.decimals is
\* at most config.maxPayment, and the amount of the signed claim is that checked value;
\* a malformed or non-numeric amount never leads to a signing call.
C28_CeilingNotBypassed ==
    \A c \in DOMAIN calls :
        calls[c].signCount > 0 =>
        LET requirements == calls[c].requirements
        IN  /\ WellFormedAmount(requirements.amount)
            /\ ~OverCeiling(DigitPrefixValue(requirements.amount, 0),
                            requirements.asset.decimals, maxPayment)
            /\ calls[c].message.amount = requirements.amount

\* A getEnhancedSwap call is in slot c, or was and has ended there.
EnhancedCall(call) == call.swap.tier # "none"

\* The call asked for a premium feature of a client with premium enabled.
PremiumRequested(call) ==
    /\ call.swap.enablePremium
    /\ \/ call.swap.params.mevProtection
       \/ call.swap.params.optimizePriorityFee
       \/ call.swap.params.includeAnalytics

\* C21: getEnhancedSwap falls back to the free tier: with enablePremium false, or with
\* none of mevProtection, optimizePriorityFee and includeAnalytics set, it sends no
\* request to the paid endpoint and asks the wallet for no payment signature; the paid
\* wrapper is used only when premium is enabled and a premium feature is requested.
C21_FreeTierFallback ==
    \A c \in DOMAIN calls :
        EnhancedCall(calls[c]) =>
            /\ ~PremiumRequested(calls[c]) =>
                    /\ calls[c].fetchCount = 0
                    /\ calls[c].signCount = 0
                    /\ calls[c].swap.tier # "premium"
            /\ calls[c].swap.tier = "premium" => PremiumRequested(calls[c])

\* Premium is enabled, no feature is requested, and buildSwap has answered.
C21_Witness ==
    \E c \in DOMAIN calls :
        /\ calls[c].swap.tier = "free"
        /\ calls[c].swap.enablePremium
        /\ ~PremiumRequested(calls[c])
        /\ calls[c].pc = "done"
        /\ calls[c].result.kind = "swapResult"
        /\ started = 2

(***************************************************************************)
(* Outcomes of a submission (sendTransactionWithRetry was entered).        *)
(***************************************************************************)
Confirmed == swapPc = "done" /\ swapResult.kind = "txid"

Expired ==
    /\ swapPc = "done"
    /\ swapResult.kind = "error"
    /\ swapResult.error.message = ExpiredMessage

FailedTerminal ==
    /\ swapPc = "done"
    /\ swapResult.kind = "error"
    /\ swapResult.error.message = "Transaction failed after 3 retry attempts"

\* The expiry check of the current attempt saw a height past the deadline.
ExpiryObserved == observedHeight # -1 /\ observedHeight > lastValidBlockHeight

\* C7: on every attempt whose expiry check observes currentHeight > deadlineHeight the
\* submission is Expired at once: sendRawTransaction was not invoked on that attempt, no
\* backoff, send or confirm follows (the call is over, with one send and one confirm at
\* most per earlier attempt) and the expiry error itself is what executeSwap throws.
C7_ExpiredWithoutSubmit ==
    ExpiryObserved =>
        /\ Expired
        /\ swapResult.error.code = "SWAP_FAILED"
        /\ swapResult.error.at = attempt
        /\ ~sentThisAttempt
        /\ sendCount <= attempt
        /\ confirmCount <= attempt
        /\ Len(sleeps) = attempt

\* C7 witness: a retry (not the first attempt) found the deadline passed after an
\* earlier attempt had submitted.
C7_Witness == ExpiryObserved /\ Expired /\ attempt >= 1 /\ sendCount >= 1

\* C8 as stated: no sendRawTransaction is issued while the ledger's height exceeds the
\* captured deadline height.
C8_NoSendPastDeadline == ~lateSend

\* C8 amended: sendRawTransaction is issued on an attempt only after that attempt's
\* expiry check observed a height that does not exceed the captured deadline height
\* (the ledger may have advanced past the deadline since that observation).
C8_SendOnlyAfterValidCheck ==
    sentThisAttempt => (observedHeight # -1 /\ observedHeight <= lastValidBlockHeight)

\* C8 witness: a send issued after a passing check, with the ledger already past the
\* deadline when it was issued.
C8_Witness == sentThisAttempt /\ lateSend /\ observedHeight <= lastValidBlockHeight

\* C9: a submission issues at most MAX_RETRY_ATTEMPTS + 1 = 4 sendRawTransaction calls
\* and always ends, in exactly one of Confirmed, Expired, Failed(terminal); Failed(terminal)
\* comes only after attempt 3 failed and its cause is the error of that attempt.
C9_Safety ==
    /\ sendCount <= 4
    /\ attempt <= 3
    /\ (swapPc = "done" /\ prepared) =>
          /\ Confirmed \/ Expired \/ FailedTerminal
          /\ ~(Confirmed /\ Expired) /\ ~(Confirmed /\ FailedTerminal)
          /\ ~(Expired /\ FailedTerminal)
    /\ (FailedTerminal /\ prepared) =>
          /\ attempt = 3
          /\ Len(sleeps) = 3
          /\ lastError.at = 3
          /\ swapResult.error.cause = <<lastError>>
          /\ swapResult.error.code = "SWAP_FAILED"

C9_BoundedRetries == [](C9_Safety) /\ <>(swapPc = "done")

\* C9 witness: all four attempts submitted and failed.
C9_Witness == FailedTerminal /\ prepared /\ sendCount = 4

\* C10: getRetryDelay(n) = min(500 * 2^n, 5000) for every n >= 0, non-decreasing in n,
\* never above the ceiling, and the delay slept after attempt n is getRetryDelay(n).
C10_Backoff ==
    /\ \A n \in 0..MaxDelayArg :
          /\ getRetryDelay(n) = (IF n >= 4 THEN 5000 ELSE 500 * (2 ^ n))
          /\ getRetryDelay(n) <= 5000
          /\ \A m \in 0..n : getRetryDelay(m) <= getRetryDelay(n)
    /\ Len(sleeps) <= 3
    /\ \A i \in 1..Len(sleeps) : sleeps[i] = <<500, 1000, 2000>>[i]

\* C10 witness: the three backoff delays of a submission were slept.
C10_Witness == Len(sleeps) = 3 /\ swapPc = "hasTransactionExpired"

\* C29: when executeSwap ends in Expired or in Failed(terminal), no sendRawTransaction
\* call of the invocation was accepted by the ledger: a submission whose send succeeded
\* on some attempt and whose confirmation then failed or timed out is not reported to
\* the caller as a failure.
C29_FailureMeansNotSent ==
    (Expired \/ FailedTerminal) => acceptedSends = 0

\* C23: the deadline height of a submission is captured once, at the start of the
\* submission, and every later use of a deadline (each expiry check and each
\* confirmation wait, on every attempt) uses the captured value; no step reads a newer
\* deadline from the ledger.  The expiry check reads lastValidBlockHeight, which only
\* GetLatestBlockhash writes; the confirmation wait runs with confirmLastValid.
C23_DeadlineCapturedOnce ==
    swapPc = "confirmTransaction" => confirmLastValid = lastValidBlockHeight

(***************************************************************************)
(* Properties of the middleware (ServerSpec).                              *)
(***************************************************************************)
\* The route of the request has an entry in the pricing table.
Priced(req) == (req.method \o <<" ">> \o req.url) \in DOMAIN pricing

\* The entry of the pricing table for the route of the request.
Config(req) == pricing[req.method \o <<" ">> \o req.url]

\* The entry names a network the middleware has a token address for.
NetworkKnown(config) == config.network \in DOMAIN USDC_ADDRESSES

\* The request carries an authorization under neither header name.
Unauthorized(req) == req.paymentSignature = NoHeader /\ req.xPayment = NoHeader

\* C11: a request to a priced route with a known network that carries neither
\* authorization header is answered 402 without a call of the verifier or of the
\* handler; the response has the same base64 JSON requirement under Payment-Required
\* and X-Payment-Required, the requirement has x402Version 1, the network of the
\* pricing entry and the configured wallet as payTo, and the JSON body is
\* {error: 'Payment Required', message, price, network} of the pricing entry.
C11_Challenge ==
    (served > 0 /\ Priced(handled.req) /\ NetworkKnown(Config(handled.req))
        /\ Unauthorized(handled.req)) =>
    LET config == Config(handled.req)
        response == handled.out.response
    IN  /\ response.status = 402
        /\ handled.out.verifierCalls = 0
        /\ handled.out.handlerCalls = 0
        /\ Decodable(response.paymentRequired)
        /\ response.xPaymentRequired = response.paymentRequired
        /\ response.paymentRequired.value.x402Version = 1
        /\ response.paymentRequired.value.network = config.network
        /\ response.paymentRequired.value.payTo = PAYMENT_WALLET
        /\ response.body = "Payment Required"
        /\ response.message = config.description
        /\ response.price = config.price
        /\ response.network = config.network

\* A challenge was sent for a priced route on mainnet.
C11_Witness ==
    /\ served > 0
    /\ Priced(handled.req) /\ Unauthorized(handled.req)
    /\ Config(handled.req).network = Mainnet
    /\ handled.out.response.status = 402
    /\ handled.out.response.xPaymentRequired # NoHeader

\* The middleware let the latest request through to the route handler.
Continued == served > 0 /\ handled.out.handlerCalls = 1

\* verifyPayment was called for the latest request and returned valid:true.
VerifiedValid ==
    served > 0 /\ handled.out.verifierCalls = 1 /\ handled.out.verification.valid

\* The gate of the middleware without the settlement header: on a priced route the
\* handler runs once if verifyPayment returned valid:true and not at all otherwise,
\* and it then sees the payment metadata; on an unpriced route the handler runs and
\* writes the response, the verifier is not called and there is no payment metadata.
HandlerGated ==
    served > 0 =>
    IF Priced(handled.req)
    THEN /\ handled.out.handlerCalls \in {0, 1}
         /\ Continued <=> VerifiedValid
         /\ Continued => /\ isPaid(handled.out.x402Payment)
                         /\ handled.out.x402Payment.txHash = handled.out.verification.txHash
    ELSE /\ handled.out.handlerCalls = 1
         /\ handled.out.verifierCalls = 0
         /\ ~isPaid(handled.out.x402Payment)
         /\ handled.out.response.body = "handler"
         /\ handled.out.response.paymentRequired = NoHeader
         /\ handled.out.response.xPaymentRequired = NoHeader

\* C12 (as claimed): the handler of a priced route is invoked exactly once if and only
\* if verifyPayment returned valid:true; whenever it is invoked the request context
\* carries the payment metadata and the response carries the settlement transaction id
\* header; on an unpriced route the handler is invoked unchanged, with no payment
\* metadata and no 402.
C12_GateSettled ==
    /\ HandlerGated
    /\ (Continued /\ Priced(handled.req)) =>
            Truthy(handled.out.response.xPaymentResponse)

\* C12 (amended): as claimed, except that the response carries the settlement header
\* when the verification result has a transaction id, and then that id; a verdict of
\* the Facilitator without a transaction id leaves the header unset.
C12_GateSettledIfKnown ==
    /\ HandlerGated
    /\ (Continued /\ Priced(handled.req)) =>
            /\ handled.out.response.xPaymentResponse = handled.out.verification.txHash
            /\ handled.out.response.xPaymentTxHash = handled.out.verification.txHash
            /\ Truthy(handled.out.response.xPaymentResponse)
                   <=> Truthy(handled.out.verification.txHash)

\* The handler of the priced route ran for a payment the Facilitator declared valid
\* without naming a transaction.
C12_Witness ==
    /\ Continued /\ Priced(handled.req) /\ VerifiedValid
    /\ handled.facilitator.reach = "ok"
    /\ ~Truthy(handled.out.verification.txHash)
    /\ isPaid(handled.out.x402Payment)

\* The latest request went to a priced route with a known network and carried a
\* decodable authorization payload.
PayloadPresented ==
    /\ served > 0
    /\ Priced(handled.req) /\ NetworkKnown(Config(handled.req))
    /\ Decodable(Authorization(handled.req))

\* The middleware answered the latest request 402 'Payment Invalid' after a
\* verification that did not contact the Facilitator.
RefusedLocally ==
    /\ ~handled.out.verification.valid
    /\ handled.out.verification.fetchCalls = 0
    /\ handled.facilitator = NotContacted
    /\ handled.out.handlerCalls = 0
    /\ handled.out.response.status = 402
    /\ handled.out.response.body = "Payment Invalid"

\* C13: verifyPayment applies its gates in order: a payload whose x402Version is not 1
\* yields valid:false (whatever its network), and otherwise a payload whose network
\* differs from the network of the requirement yields valid:false with a reason that
\* names the network mismatch; in both cases the Facilitator is not contacted and the
\* middleware answers 402 'Payment Invalid'.
C13_Gates ==
    PayloadPresented =>
    LET payload == Authorization(handled.req).value
        verification == handled.out.verification
    IN  /\ payload.x402Version # 1 =>
               RefusedLocally /\ verification.error = "Invalid x402 version"
        /\ (payload.x402Version = 1 /\ payload.network # Config(handled.req).network) =>
               /\ RefusedLocally
               /\ verification.error = "Network mismatch"
               /\ handled.out.response.message = "Network mismatch"

\* A payload of version 1 for the other network was refused.
C13_Witness ==
    /\ PayloadPresented
    /\ Authorization(handled.req).value.x402Version = 1
    /\ Authorization(handled.req).value.network = Mainnet
    /\ Config(handled.req).network = Devnet
    /\ RefusedLocally

\* verifyPayment was called for the latest request.
VerifierCalled == served > 0 /\ handled.out.verifierCalls = 1

\* C14: verifyPayment never throws: for every authorization string and every behaviour
\* of the Facilitator it returns a result, and every failure is returned as valid:false
\* together with a reason string.
C14_FailureHasReason ==
    VerifierCalled =>
        /\ ~handled.out.verification.threw
        /\ ~handled.out.verification.valid =>
               handled.out.verification.error # "undefined"

\* verifyPayment issued the verify call for the latest request.
FacilitatorCalled == VerifierCalled /\ handled.out.verification.fetchCalls = 1

\* The result of verifyPayment is the local acceptance of the development mode.
AcceptedLocally ==
    handled.out.verification.valid /\ IsPseudo(handled.out.verification.txHash)

\* C15: whenever the Facilitator responds to the verify call, with any HTTP status, the
\* validity and the transaction id of the result are the Facilitator's verdict (an
\* answer that carries no verdict is no acceptance); the local acceptance of the
\* relaxed mode is used only when the Facilitator is unreachable.
C15_FacilitatorVerdict ==
    FacilitatorCalled =>
        /\ handled.facilitator.reach = "ok" =>
               /\ handled.out.verification.valid = handled.facilitator.valid
               /\ handled.out.verification.txHash = handled.facilitator.txHash
        /\ handled.facilitator.reach \in {"errorStatus", "malformedBody"} =>
               ~handled.out.verification.valid
        /\ AcceptedLocally => handled.facilitator.reach = "unreachable"

\* The verify call for the latest request did not reach the Facilitator.
Unreachable == FacilitatorCalled /\ handled.facilitator.reach = "unreachable"

\* What verifyPayment returns when the Facilitator is unreachable: valid:false in
\* production mode, valid:true with a pseudo transaction id in development mode.
ModeDecides ==
    Unreachable =>
        IF production
        THEN /\ ~handled.out.verification.valid
             /\ ~Truthy(handled.out.verification.txHash)
        ELSE /\ handled.out.verification.valid
             /\ IsPseudo(handled.out.verification.txHash)

\* C16 (as claimed): when the Facilitator is unreachable and the payload passed the
\* version and network gates, verifyPayment returns valid:false in production mode and
\* valid:true with a locally generated, namespaced pseudo transaction id in development
\* mode, and that id is distinct for every call.
C16_DistinctPerCall ==
    /\ ModeDecides
    /\ \A i, j \in DOMAIN issued : i # j => issued[i].txHash # issued[j].txHash

\* C16 (amended): as claimed, except that the ids of two calls are distinct when the
\* calls differ in the clock reading or in the random number drawn.
C16_DistinctPerDraw ==
    /\ ModeDecides
    /\ \A i, j \in DOMAIN issued :
           (issued[i].time # issued[j].time \/ issued[i].random # issued[j].random)
               => issued[i].txHash # issued[j].txHash

\* Two payments were accepted locally within the same millisecond, with different
\* random numbers.
C16_Witness ==
    /\ Unreachable /\ ~production /\ AcceptedLocally
    /\ Len(issued) = 2
    /\ issued[1].time = issued[2].time
    /\ issued[1].random # issued[2].random

\* price * 10^decimals in exact decimal arithmetic, as a decimal string, for a price
\* "$d.ddd" with at most `decimals` digits after the point: the point is moved.
ScaledPrice(priceString, decimals) ==
    LET text == RemoveFirstDollar(priceString)
        dot == CHOOSE i \in 1..(Len(text) + 1) :
                   (i = Len(text) + 1 \/ text[i] = ".")
                   /\ \A j \in 1..(i - 1) : text[j] # "."
        whole == SubSeq(text, 1, dot - 1)
        frac == SubSeq(text, dot + 1, Len(text))
    IN  NumberToString(DigitPrefixValue(whole \o frac, 0) * Pow10(decimals - Len(frac)))

\* The middleware built a requirement for the latest request.
RequirementBuilt == served > 0 /\ handled.out.requirements # Undefined

\* C17: the amount of the requirement is the price of the pricing entry in atomic units
\* of the asset, as a decimal string: price * 10^6, so "5000" for $0.005; amount and
\* maxAmountRequired are equal, and the amount is never a display value.
C17_AtomicAmount ==
    RequirementBuilt =>
    LET requirements == handled.out.requirements
        price == Config(handled.req).price
    IN  /\ requirements.amount = ScaledPrice(price, requirements.asset.decimals)
        /\ requirements.asset.decimals = 6
        /\ price = <<"$", "0", ".", "0", "0", "5">> =>
               requirements.amount = <<"5", "0", "0", "0">>
        /\ requirements.maxAmountRequired = requirements.amount
        /\ \A i \in DOMAIN requirements.amount : IsDigit(requirements.amount[i])

\* The latest request went to a priced route with a known network and carried an
\* authorization that cannot be decoded or that the verifier rejected.
InvalidAuthorization ==
    /\ served > 0
    /\ Priced(handled.req) /\ NetworkKnown(Config(handled.req))
    /\ ~Unauthorized(handled.req)
    /\ ~handled.out.verification.valid

\* C24: a priced request whose authorization header cannot be decoded, or is rejected
\* by the verifier, is treated as invalid and challenged again: the handler is not
\* invoked and the response is a 402 that carries the PaymentRequirement under both
\* header names, as for a request without authorization.
C24_Rechallenge ==
    InvalidAuthorization =>
    LET response == handled.out.response
    IN  /\ handled.out.handlerCalls = 0
        /\ response.status = 402
        /\ response.paymentRequired = Base64Json(handled.out.requirements)
        /\ response.xPaymentRequired = Base64Json(handled.out.requirements)

\* C27: the Verifier's call to the Facilitator is bounded in time: when the Facilitator
\* accepts the connection and never answers, verifyPayment still returns a result in
\* the end, so that the middleware answers every priced request in the end.
C27_AlwaysAnswers == Awaiting ~> ~Awaiting

\* The payload of the latest request carries a proof of payment: a message, a
\* signature and a public key.
ProofPresented ==
    /\ Decodable(Authorization(handled.req))
    /\ "payload" \in DOMAIN Authorization(handled.req).value
    /\ {"message", "signature", "publicKey"}
           \subseteq DOMAIN Authorization(handled.req).value.payload

\* verifyPayment accepted the authorization of the latest request only with a proof.
ValidOnlyWithProof == (served > 0 /\ handled.out.verified) => ProofPresented

\* This step does not accept the authorization that the request before it was granted
\* the route for.
NoReplay ==
    ~( /\ served > 0 /\ served' = served + 1
       /\ handled.out.verified /\ handled'.out.verified
       /\ Authorization(handled'.req) = Authorization(handled.req) )

\* C30: the server never grants a priced route to an authorization without proof of
\* payment: in every mode verifyPayment returns valid:true only for a payload that
\* contains a message, a signature and a public key, and the same authorization string
\* presented on two requests is accepted at most once.
C30_ProofRequired == [](ValidOnlyWithProof) /\ [][NoReplay]_vars

====
